---- MODULE Spec2Model ----
(***************************************************************************)
(* Model of the Crisp webhook bridge: webhook authentication               *)
(* (validateWebhookSecret), the session tracker (trackSession), the        *)
(* pending-reply store, the inbound webhook handler                        *)
(* (handleCrispWebhookRequest / handleInboundMessage) and the reply path   *)
(* used to resolve an approval ticket (sendCrispReply).                    *)
(*                                                                         *)
(* Texts on which the code computes character by character (secrets,       *)
(* reply texts) are sequences of one-character strings.  Optional values   *)
(* (a missing query parameter, an undefined field) are option records      *)
(* [has, val].  Time is counted in hours.                                  *)
(***************************************************************************)
EXTENDS Integers, Sequences, FiniteSets, TLC

VARIABLES
    v,               \* the running validateWebhookSecret call (its locals and position)
    vPrev,           \* observation of the previous completed validateWebhookSecret call
    now,             \* Date.now(), in hours
    runtime,         \* runtime.ts: the module-level `runtime` reference
    config,          \* the resolved account configuration handed to the handler
    activeSessions,  \* monitor.ts: Map<string, CrispSessionState>, the named conversations
    bgSessions,      \* number of further sessions in activeSessions, all last active at hour 0
    pendingReplies,  \* pending-replies.ts: Map<string, PendingReply>
    pendingOrder,    \* the keys of pendingReplies in the Map's iteration (insertion) order
    req,             \* one record per webhook request: inputs, position, response, effects
    att,             \* one record per ticket-resolution attempt
    trk,             \* observation of the direct trackSession calls
    obs,             \* observation of the latest direct call of a store or session operation
    fetch,           \* api-client.ts: the running crispFetch call (position, timer, outcome)
    tg,              \* telegram-notify.ts: the sendTelegramNotification call building its text
    accounts         \* channel.ts: the resolved accounts, in the order of listCrispAccountIds

vars == <<v, vPrev, now, runtime, config, activeSessions, bgSessions, pendingReplies, pendingOrder,
          req, att, trk, obs, fetch, tg, accounts>>

----------------------------------------------------------------------------
(* Option values and small helpers                                         *)

None == [has |-> FALSE, val |-> <<>>]

Some(x) == [has |-> TRUE, val |-> x]

Max(a, b) == IF a >= b THEN a ELSE b

\* All sequences over S of length at most n.
SeqsUpTo(S, n) == UNION {[1..k -> S] : k \in 0..n}

----------------------------------------------------------------------------
(* validateWebhookSecret                                                   *)

\* Longest secret the model enumerates.
MaxSecretLen == 2

SecretChars == {"a", "b"}

\* String.prototype.charCodeAt for the characters of the model.
charCodeAt(s, i) == IF s[i] = "a" THEN 97 ELSE IF s[i] = "b" THEN 98 ELSE 32

RECURSIVE BitXor(_, _)
\* a ^ b on non-negative integers.
BitXor(a, b) ==
    IF a = 0 THEN b
    ELSE IF b = 0 THEN a
    ELSE (((a % 2) + (b % 2)) % 2) + (2 * BitXor(a \div 2, b \div 2))

RECURSIVE BitOr(_, _)
\* a | b on non-negative integers.
BitOr(a, b) ==
    IF a = 0 THEN b
    ELSE IF b = 0 THEN a
    ELSE Max(a % 2, b % 2) + (2 * BitOr(a \div 2, b \div 2))

\* A plausible slip: `result = ...` instead of `result |= ...`.
XorAccumulate_Overwrite(result, provided, expected, i) ==
    BitXor(charCodeAt(provided, i), charCodeAt(expected, i))

\* monitor.ts:57  result |= providedSecret.charCodeAt(i) ^ expectedSecret.charCodeAt(i)
XorAccumulate(result, provided, expected, i) ==
    BitOr(result, BitXor(charCodeAt(provided, i), charCodeAt(expected, i)))

\* `!providedSecret`: null (parameter missing) and "" are both falsy.
Falsy(opt) == ~opt.has \/ opt.val = <<>>

RECURSIVE XorLoop(_, _, _, _)
\* The for loop of lines 55-58, from index i with accumulator result.
XorLoop(result, provided, expected, i) ==
    IF i > Len(provided) THEN result
    ELSE XorLoop(XorAccumulate(result, provided, expected, i), provided, expected, i + 1)

\* validateWebhookSecret as a function of the `secret` parameter and the configured secret.
validateWebhookSecret(provided, expected) ==
    IF Falsy(provided) \/ Falsy(expected) THEN FALSE
    ELSE IF Len(provided.val) # Len(expected.val) THEN FALSE
    ELSE XorLoop(0, provided.val, expected.val, 1) = 0

SecretValues == {None} \cup {Some(s) : s \in SeqsUpTo(SecretChars, MaxSecretLen)}

VIdle == [pc |-> "idle", provided |-> None, expected |-> None, i |-> 0, result |-> 0,
          trace |-> <<>>, ret |-> FALSE]

NoPrev == [seen |-> FALSE, len |-> 0, trace |-> <<>>, firstDiff |-> 0]

\* Position of the first character at which two secrets of equal length differ, 0 if none.
FirstDiff(a, b) ==
    LET d == {k \in 1..Len(a) : a[k] # b[k]}
    IN  IF d = {} THEN 0 ELSE CHOOSE k \in d : \A j \in d : k <= j

\* Whether a call got past the two early returns and ran the comparison loop.
RanLoop(call) == "lengthsEqual" \in {call.trace[k] : k \in 1..Len(call.trace)}

\* What an observer of a completed call sees: whether the loop ran, on what length,
\* and the sequence of branches taken.
Observation(call) ==
    [seen |-> TRUE,
     len |-> IF RanLoop(call) THEN Len(call.provided.val) ELSE 0,
     trace |-> call.trace,
     firstDiff |-> IF RanLoop(call) THEN FirstDiff(call.provided.val, call.expected.val) ELSE 0]

\* A call of validateWebhookSecret(url, expectedSecret) begins; line 50 reads the parameter.
V_Call(provided, expected) ==
    /\ v.pc \in {"idle", "done"}
    /\ v' = [VIdle EXCEPT !.pc = "guards", !.provided = provided, !.expected = expected]
    /\ vPrev' = IF v.pc = "done" THEN Observation(v) ELSE vPrev

\* Lines 51 and 54: the two early returns, then `let result = 0` and `let i = 0`.
V_Guards ==
    /\ v.pc = "guards"
    /\ \/ /\ Falsy(v.provided) \/ Falsy(v.expected)
          /\ v' = [v EXCEPT !.pc = "done", !.ret = FALSE, !.trace = Append(@, "missing")]
       \/ /\ ~(Falsy(v.provided) \/ Falsy(v.expected))
          /\ Len(v.provided.val) # Len(v.expected.val)
          /\ v' = [v EXCEPT !.pc = "done", !.ret = FALSE, !.trace = Append(@, "lengthsDiffer")]
       \/ /\ ~(Falsy(v.provided) \/ Falsy(v.expected))
          /\ Len(v.provided.val) = Len(v.expected.val)
          /\ v' = [v EXCEPT !.pc = "loop", !.result = 0, !.i = 1,
                            !.trace = Append(@, "lengthsEqual")]
    /\ UNCHANGED vPrev

\* A plausible slip: leave the loop as soon as a difference has been seen.
V_LoopStep_EarlyExit ==
    /\ v.pc = "loop"
    /\ \/ /\ v.i <= Len(v.provided.val)
          /\ LET r == XorAccumulate(v.result, v.provided.val, v.expected.val, v.i)
             IN  IF r # 0
                 THEN v' = [v EXCEPT !.result = r, !.pc = "return",
                                     !.trace = Append(@, "break")]
                 ELSE v' = [v EXCEPT !.result = r, !.i = @ + 1,
                                     !.trace = Append(@, "iterate")]
       \/ /\ v.i > Len(v.provided.val)
          /\ v' = [v EXCEPT !.pc = "return", !.trace = Append(@, "exit")]
    /\ UNCHANGED vPrev

\* Lines 56-58: one evaluation of the loop test, and the loop body when it holds.
V_LoopStep ==
    /\ v.pc = "loop"
    /\ \/ /\ v.i <= Len(v.provided.val)
          /\ v' = [v EXCEPT !.result = XorAccumulate(@, v.provided.val, v.expected.val, v.i),
                            !.i = @ + 1,
                            !.trace = Append(@, "iterate")]
       \/ /\ v.i > Len(v.provided.val)
          /\ v' = [v EXCEPT !.pc = "return", !.trace = Append(@, "exit")]
    /\ UNCHANGED vPrev

\* Line 59: return result === 0.
V_Return ==
    /\ v.pc = "return"
    /\ v' = [v EXCEPT !.pc = "done", !.ret = (v.result = 0)]
    /\ UNCHANGED vPrev

----------------------------------------------------------------------------
(* Program constants, in hours                                             *)

\* monitor.ts:23  SESSION_TTL_MS = 24 * 60 * 60 * 1000
SESSION_TTL == 24

\* pending-replies.ts:24  PENDING_REPLY_TTL_MS = 60 * 60 * 1000
PENDING_REPLY_TTL == 1

\* monitor.ts:116  if (activeSessions.size > 100)
SESSION_SWEEP_THRESHOLD == 100

\* An undefined string-valued field.
UNDEF == "undefined"

----------------------------------------------------------------------------
(* Finite maps: a Map is a function on the set of its keys                 *)

EmptyMap == [k \in {} |-> 0]

MapSet(m, k, val) == [x \in DOMAIN m \cup {k} |-> IF x = k THEN val ELSE m[x]]

MapDelete(m, k) == [x \in DOMAIN m \ {k} |-> m[x]]

MapKeep(m, keys) == [x \in DOMAIN m \cap keys |-> m[x]]

----------------------------------------------------------------------------
(* Session tracker                                                         *)

SessionIds == {"s1", "s2"}

\* Largest message count the model lets a session reach.
MaxMessageCount == 3

\* A plausible slip: the existing session is refreshed but its `isNew` flag is kept.
UpdateSession_KeepsFlag(existing, t) ==
    [existing EXCEPT !.lastMessageAt = t, !.messageCount = @ + 1]

\* monitor.ts:95-97: the existing session, mutated in place.
UpdateSession(existing, t) ==
    [existing EXCEPT !.lastMessageAt = t, !.messageCount = @ + 1, !.isNew = FALSE]

\* monitor.ts:101-111: the record of a conversation seen for the first time.
NewSession(t, sessionId, websiteId, accountId, visitorName, visitorEmail) ==
    [sessionId |-> sessionId, websiteId |-> websiteId, accountId |-> accountId,
     visitorName |-> visitorName, visitorEmail |-> visitorEmail,
     startedAt |-> t, lastMessageAt |-> t, messageCount |-> 1, isNew |-> TRUE]

\* A plausible slip: the sweep runs whatever the size of the map.
SweepSessions_AnySize(sessions, bg, t) ==
    LET cutoff == t - SESSION_TTL
    IN  [sessions |-> MapKeep(sessions,
                              {k \in DOMAIN sessions : ~(sessions[k].lastMessageAt < cutoff)}),
         bg |-> IF 0 < cutoff THEN 0 ELSE bg]

\* monitor.ts:116-123: the sweep, over the named sessions and the count of the others
\* (which were all last active at hour 0).
SweepSessions(sessions, bg, t) ==
    IF Cardinality(DOMAIN sessions) + bg > SESSION_SWEEP_THRESHOLD
    THEN LET cutoff == t - SESSION_TTL
         IN  [sessions |-> MapKeep(sessions,
                                   {k \in DOMAIN sessions : ~(sessions[k].lastMessageAt < cutoff)}),
              bg |-> IF 0 < cutoff THEN 0 ELSE bg]
    ELSE [sessions |-> sessions, bg |-> bg]

\* A plausible slip: the lookup of the existing session is missing, so every call
\* stores a fresh record.
trackSession_AlwaysNew(sessions, bg, t, sessionId, websiteId, accountId, visitorName, visitorEmail) ==
    LET session == NewSession(t, sessionId, websiteId, accountId, visitorName, visitorEmail)
        swept == SweepSessions(MapSet(sessions, sessionId, session), bg, t)
    IN  [sessions |-> swept.sessions, bg |-> swept.bg, ret |-> session]

\* A plausible slip: the visitor fields of an existing session are refreshed from the
\* message.
trackSession_RefreshesVisitor(sessions, bg, t, sessionId, websiteId, accountId, visitorName, visitorEmail) ==
    IF sessionId \in DOMAIN sessions
    THEN LET updated == [UpdateSession(sessions[sessionId], t) EXCEPT
                            !.visitorName = visitorName, !.visitorEmail = visitorEmail]
         IN  [sessions |-> MapSet(sessions, sessionId, updated), bg |-> bg, ret |-> updated]
    ELSE LET session == NewSession(t, sessionId, websiteId, accountId, visitorName, visitorEmail)
             swept == SweepSessions(MapSet(sessions, sessionId, session), bg, t)
         IN  [sessions |-> swept.sessions, bg |-> swept.bg, ret |-> session]

\* trackSession: the map and the count of other sessions after the call, and the
\* session returned.
trackSession(sessions, bg, t, sessionId, websiteId, accountId, visitorName, visitorEmail) ==
    IF sessionId \in DOMAIN sessions
    THEN LET updated == UpdateSession(sessions[sessionId], t)
         IN  [sessions |-> MapSet(sessions, sessionId, updated), bg |-> bg, ret |-> updated]
    ELSE LET session == NewSession(t, sessionId, websiteId, accountId, visitorName, visitorEmail)
             swept == SweepSessions(MapSet(sessions, sessionId, session), bg, t)
         IN  [sessions |-> swept.sessions, bg |-> swept.bg, ret |-> session]

----------------------------------------------------------------------------
(* Pending-reply store                                                     *)

\* Ticket IDs generateId can return (upper case), standing for the 6-character tokens.
GeneratedIds == {<<"A", "1">>, <<"B", "2">>}

\* The iteration order of the Map once its content has become `store`: the keys that
\* are left keep their places, a key that is new comes last.
OrderAfter(order, store) ==
    LET Left(k) == k \in DOMAIN store
        known == {order[i] : i \in 1..Len(order)}
        fresh == DOMAIN store \ known
    IN  SelectSeq(order, Left) \o (IF fresh = {} THEN <<>> ELSE <<CHOOSE k \in fresh : TRUE>>)

\* String.prototype.toUpperCase on one character.
UpperChar(c) == IF c = "a" THEN "A" ELSE IF c = "b" THEN "B" ELSE c

\* A plausible slip: the lookup key is the ID as given.
toUpperCase_AsGiven(id) == id

\* String.prototype.toUpperCase.
toUpperCase(id) == [k \in 1..Len(id) |-> UpperChar(id[k])]

\* A plausible slip: the sweep is left out.
SweepPending_Skipped(store, t) == store

\* pending-replies.ts:47-52: delete every entry created before the cutoff.
SweepPending(store, t) ==
    LET cutoff == t - PENDING_REPLY_TTL
    IN  MapKeep(store, {k \in DOMAIN store : ~(store[k].createdAt < cutoff)})

\* storePendingReply, with the ID that generateId drew: the store after the call and
\* the ticket returned.
storePendingReply(store, t, id, params) ==
    LET pending == [id |-> id,
                    crispSessionId |-> params.crispSessionId,
                    crispWebsiteId |-> params.crispWebsiteId,
                    visitorName |-> params.visitorName,
                    visitorMessage |-> params.visitorMessage,
                    proposedReply |-> params.proposedReply,
                    telegramMessageId |-> UNDEF,
                    telegramChatId |-> UNDEF,
                    createdAt |-> t,
                    accountId |-> params.accountId]
    IN  [store |-> SweepPending(MapSet(store, id, pending), t), ret |-> pending]

\* A plausible slip: the expiry check is missing.
getPendingReply_NoExpiry(store, t, id) ==
    [store |-> store, found |-> toUpperCase(id) \in DOMAIN store, key |-> toUpperCase(id)]

\* getPendingReply: the store after the call (an expired record is deleted) and the
\* ticket returned, if any.
getPendingReply(store, t, id) ==
    LET key == toUpperCase(id)
    IN  IF key \notin DOMAIN store THEN [store |-> store, found |-> FALSE, key |-> key]
        ELSE IF t - store[key].createdAt > PENDING_REPLY_TTL
             THEN [store |-> MapDelete(store, key), found |-> FALSE, key |-> key]
             ELSE [store |-> store, found |-> TRUE, key |-> key]

\* removePendingReply: the store after Map.delete.
removePendingReply(store, id) == MapDelete(store, toUpperCase(id))

\* The ticket record storePendingReply builds.
PendingReply(t, id, params) == storePendingReply(EmptyMap, t, id, params).ret

\* A plausible slip: the correlation fields are written whether or not the ticket is
\* still there.
updatePendingReplyTelegram_Upsert(store, id, telegramMessageId, telegramChatId) ==
    LET key == toUpperCase(id)
        pending == IF key \in DOMAIN store THEN store[key]
                   ELSE PendingReply(0, key, [crispSessionId |-> UNDEF, crispWebsiteId |-> UNDEF,
                                              visitorName |-> UNDEF, visitorMessage |-> <<>>,
                                              proposedReply |-> <<>>, accountId |-> UNDEF])
    IN  MapSet(store, key, [pending EXCEPT !.telegramMessageId = telegramMessageId,
                                           !.telegramChatId = telegramChatId])

\* updatePendingReplyTelegram: the store after the call.
updatePendingReplyTelegram(store, id, telegramMessageId, telegramChatId) ==
    LET key == toUpperCase(id)
    IN  IF key \in DOMAIN store
        THEN MapSet(store, key, [store[key] EXCEPT !.telegramMessageId = telegramMessageId,
                                                   !.telegramChatId = telegramChatId])
        ELSE store

\* removePendingReply: what Map.delete returns.
removePendingReplyReturns(store, id) == toUpperCase(id) \in DOMAIN store

\* findPendingReplyByTelegramMessage: the first ticket, in the Map's iteration order,
\* whose telegramMessageId is the given one.
findPendingReplyByTelegramMessage(store, order, telegramMessageId) ==
    LET matches == {i \in 1..Len(order) : store[order[i]].telegramMessageId = telegramMessageId}
    IN  IF matches = {} THEN [found |-> FALSE, key |-> <<>>]
        ELSE [found |-> TRUE, key |-> order[CHOOSE i \in matches : \A j \in matches : i <= j]]

\* getAllPendingReplies: the tickets created at or after the cutoff, in iteration order.
getAllPendingReplies(store, order, t) ==
    LET cutoff == t - PENDING_REPLY_TTL
        Recent(k) == store[k].createdAt >= cutoff
        keys == SelectSeq(order, Recent)
    IN  [i \in 1..Len(keys) |-> store[keys[i]]]

----------------------------------------------------------------------------
(* Account configuration and webhook requests                              *)

\* types.ts: DEFAULT_WEBHOOK_PATH, standing for "/crisp-webhook".
DEFAULT_WEBHOOK_PATH == <<"/", "w">>

\* The secret the account is configured with.
ConfiguredSecret == Some(<<"a", "b">>)

\* The configurations the handler is run under: every combination of the behaviour flags.
Configs ==
    [webhookPath : {DEFAULT_WEBHOOK_PATH},
     webhookSecret : {ConfiguredSecret},
     autoReply : BOOLEAN,
     approvalMode : BOOLEAN,
     resolveOnReply : BOOLEAN,
     telegramConfigured : BOOLEAN,   \* telegramBotToken and approvalChatId both set
     approvalChatId : {"chat1"},
     historyLimit : {0, 10}]

\* resolveWebhookPath: config.webhookPath || DEFAULT_WEBHOOK_PATH
resolveWebhookPath(cfg) ==
    IF cfg.webhookPath = <<>> THEN DEFAULT_WEBHOOK_PATH ELSE cfg.webhookPath

\* String.prototype.startsWith
StartsWith(s, prefix) ==
    /\ Len(prefix) <= Len(s)
    /\ SubSeq(s, 1, Len(prefix)) = prefix

\* The request slots: Reqs are the invocations of the handler the model follows, and
\* FirstReq the one that runs when requests are handled one at a time.
Reqs == {"r1", "r2"}

FirstReq == {"r1"}

FileSentinel == <<"[Fichier envoye]">>

HiText == <<"h", "i">>

\* The data object of a webhook body.
Data(from, type, content, sessionId, nickname, email) ==
    [from |-> from, type |-> type, content |-> content, session_id |-> sessionId,
     website_id |-> "w1", nickname |-> nickname, email |-> email]

DefaultData == Data("user", "text", Some(HiText), "s1", UNDEF, UNDEF)

\* A parsed JSON object body; hasData is false when `data` is missing.
Body(event, hasData, data) == [kind |-> "object", event |-> event, hasData |-> hasData, data |-> data]

Events == {"message:send", "message:received", "session:set_state", "session:set_email",
           "other:event", UNDEF}

\* Visitor messages of conversation s1: the accepted types with a text, an empty or a
\* missing content, the senders and the type that are skipped; and one message of
\* conversation s2, with a nickname.
MessageBodies ==
    {Body("message:send", TRUE, Data("user", t, c, "s1", UNDEF, UNDEF)) :
        t \in {"text", "file"}, c \in {Some(HiText), None}}
    \cup {Body("message:send", TRUE, Data("user", "text", Some(<<>>), "s1", UNDEF, UNDEF)),
          Body("message:send", TRUE, Data("user", UNDEF, Some(HiText), "s1", UNDEF, UNDEF)),
          Body("message:send", TRUE, Data("user", "audio", Some(HiText), "s1", UNDEF, UNDEF)),
          Body("message:send", TRUE, Data("user", "text", Some(HiText), "s2", "Ann", UNDEF))}
    \cup {Body("message:send", TRUE, Data(f, "text", Some(HiText), "s1", UNDEF, UNDEF)) :
        f \in {"operator", UNDEF}}

EmailBodies ==
    {Body("session:set_email", TRUE, Data(UNDEF, UNDEF, None, sid, UNDEF, e)) :
        sid \in SessionIds, e \in {"e1", "", UNDEF}}

Bodies ==
    {[kind |-> k, event |-> UNDEF, hasData |-> FALSE, data |-> DefaultData] : k \in {"invalid", "null"}}
    \cup {Body(e, FALSE, DefaultData) : e \in Events}
    \cup {Body(e, TRUE, DefaultData) : e \in Events \ {"message:send", "session:set_email"}}
    \cup MessageBodies
    \cup EmailBodies

Input(method, pathname, secret, body) ==
    [method |-> method, pathname |-> pathname, secret |-> secret, body |-> body]

DefaultBody == Body("message:send", TRUE, DefaultData)

\* Secrets a request can carry that are not the configured one.
BadSecrets == {None, Some(<<>>), Some(<<"a", "a">>), Some(<<"b", "b">>), Some(<<"a">>)}

\* The requests the environment sends: other methods and paths, bad secrets on the
\* webhook path, and every body under the right secret.
RequestInputs ==
    {Input("GET", DEFAULT_WEBHOOK_PATH, ConfiguredSecret, DefaultBody),
     Input("POST", <<"/", "o">>, ConfiguredSecret, DefaultBody)}
    \cup {Input("POST", p, s, DefaultBody) :
            p \in {DEFAULT_WEBHOOK_PATH, <<"/", "w", "x">>}, s \in BadSecrets}
    \cup {Input("POST", DEFAULT_WEBHOOK_PATH, ConfiguredSecret, b) : b \in Bodies}
    \cup {Input("POST", <<"/", "w", "x">>, ConfiguredSecret, DefaultBody)}

ReqIdle ==
    [pc |-> "idle", input |-> Input("GET", <<>>, None, DefaultBody), accountId |-> "acct1",
     status |-> 0, respBody |-> "", ret |-> "none", log |-> <<>>, history |-> "none",
     ticket |-> <<>>, delivers |-> 0, isNew |-> "none", prompt |-> UNDEF,
     written |-> 0]

\* One call made to a collaborator, as recorded in the request's log.
Ev(op, sid, wid, text, ticket) ==
    [op |-> op, sid |-> sid, wid |-> wid, text |-> text, ticket |-> ticket]

\* res.writeHead(status); res.end(body); return true
Respond(rq, status, body) ==
    [rq EXCEPT !.pc = "done", !.status = status, !.respBody = body, !.ret = "true",
               !.written = @ + 1]

\* Lines 445-448: the answer after the switch.
RespondOk(rq) == Respond(rq, 200, "{ok:true}")

\* A plausible slip: the catch block answers like the success path.
RespondError_Answers200(rq) == Respond(rq, 200, "{ok:true}")

\* Lines 450-454: the catch block of handleCrispWebhookRequest.
RespondError(rq) == Respond(rq, 500, "{error:Internal error}")

\* A plausible slip: the 401 is written but `return true` is missing, so the handler
\* goes on to read the body.
H_Request_ContinuesAfter401(r, input) ==
    /\ runtime # UNDEF
    /\ req[r].pc = "idle"
    /\ LET rq == [req[r] EXCEPT !.input = input]
       IN  req' = [req EXCEPT ![r] =
             IF input.method # "POST"
             THEN [rq EXCEPT !.pc = "done", !.ret = "false"]
             ELSE IF ~StartsWith(input.pathname, resolveWebhookPath(config))
             THEN [rq EXCEPT !.pc = "done", !.ret = "false"]
             ELSE IF ~validateWebhookSecret(input.secret, config.webhookSecret)
             THEN [Respond(rq, 401, "{error:Invalid secret}") EXCEPT !.pc = "parsing"]
             ELSE [rq EXCEPT !.pc = "parsing"]]
    /\ UNCHANGED <<v, vPrev, fetch, tg, accounts, now, runtime, config, activeSessions, bgSessions, pendingReplies, pendingOrder, att, trk, obs>>

\* A plausible slip: a request for another path is answered 404 before the handler
\* returns false.
H_Request_AnswersNotMine(r, input) ==
    /\ runtime # UNDEF
    /\ req[r].pc = "idle"
    /\ LET rq == [req[r] EXCEPT !.input = input]
       IN  req' = [req EXCEPT ![r] =
             IF input.method # "POST"
             THEN [rq EXCEPT !.pc = "done", !.ret = "false"]
             ELSE IF ~StartsWith(input.pathname, resolveWebhookPath(config))
             THEN [Respond(rq, 404, "{error:Not found}") EXCEPT !.ret = "false"]
             ELSE IF ~validateWebhookSecret(input.secret, config.webhookSecret)
             THEN Respond(rq, 401, "{error:Invalid secret}")
             ELSE [rq EXCEPT !.pc = "parsing"]]
    /\ UNCHANGED <<v, vPrev, fetch, tg, accounts, now, runtime, config, activeSessions, bgSessions, pendingReplies, pendingOrder, att, trk, obs>>

\* Lines 394-412 for a request record rq called with configuration cfg: the method,
\* path and secret checks.
Admit(rq, cfg) ==
    IF rq.input.method # "POST"
    THEN [rq EXCEPT !.pc = "done", !.ret = "false"]
    ELSE IF ~StartsWith(rq.input.pathname, resolveWebhookPath(cfg))
    THEN [rq EXCEPT !.pc = "done", !.ret = "false"]
    ELSE IF ~validateWebhookSecret(rq.input.secret, cfg.webhookSecret)
    THEN Respond(rq, 401, "{error:Invalid secret}")
    ELSE [rq EXCEPT !.pc = "parsing"]

\* Lines 394-412: the method, path and secret checks, up to `await parseJsonBody`.
H_Request(r, input) ==
    /\ runtime # UNDEF
    /\ req[r].pc = "idle"
    /\ req' = [req EXCEPT ![r] = Admit([req[r] EXCEPT !.input = input], config)]
    /\ UNCHANGED <<v, vPrev, fetch, tg, accounts, now, runtime, config, activeSessions, bgSessions, pendingReplies, pendingOrder, att, trk, obs>>

\* Lines 185-188 of handleInboundMessage.
VisitorName(data) == IF data.nickname \in {UNDEF, ""} THEN "Visitor" ELSE data.nickname

MessageText(data) ==
    IF data.type = "file" THEN FileSentinel
    ELSE IF data.content.has THEN data.content.val ELSE <<>>

\* A plausible slip: only the sender is checked, every message type is processed.
Skipped_SenderOnly(data) == data.from # "user"

\* Lines 173-182: the two skips.
Skipped(data) ==
    \/ data.from # "user"
    \/ data.type \notin {UNDEF, "text", "file"}

----------------------------------------------------------------------------
(* handleInboundMessage and handleCrispWebhookRequest                      *)

\* Most deliver() calls the model lets one dispatch make.
MaxDelivers == 2

TelegramMessageIds == {"m1", "m2"}

\* The request's record becomes rq; the stores are left alone.
Finish(r, rq) ==
    /\ req' = [req EXCEPT ![r] = rq]
    /\ UNCHANGED <<pendingReplies, pendingOrder>>

Logged(rq, op, text, ticket) ==
    [rq EXCEPT !.log = Append(@, Ev(op, rq.input.body.data.session_id,
                                    rq.input.body.data.website_id, text, ticket))]

\* A plausible slip: the approval branch stores the ticket and then falls through to
\* the auto-reply dispatch.
RouteAndBranch_FallsThrough(r, rq, routeOk, id, evtOk) ==
    LET data == rq.input.body.data
        routed == Logged(rq, IF routeOk THEN "resolveAgentRoute" ELSE "resolveAgentRouteThrew",
                         <<>>, <<>>)
    IN  IF ~routeOk THEN Finish(r, RespondError(routed))
        ELSE IF config.approvalMode
        THEN LET stored == storePendingReply(pendingReplies, now, id,
                              [crispSessionId |-> data.session_id,
                               crispWebsiteId |-> data.website_id,
                               visitorName |-> VisitorName(data),
                               visitorMessage |-> MessageText(data),
                               proposedReply |-> <<>>,
                               accountId |-> rq.accountId])
             IN  /\ pendingReplies' = stored.store
                 /\ pendingOrder' = OrderAfter(pendingOrder, stored.store)
                 /\ req' = [req EXCEPT ![r] =
                       [Logged(Logged(routed, "storePendingReply", MessageText(data), id),
                               "dispatch", MessageText(data), <<>>)
                           EXCEPT !.pc = "dispatch", !.ticket = id]]
        ELSE Finish(r, [Logged(routed, "dispatch", MessageText(data), <<>>)
                           EXCEPT !.pc = "dispatch"])

\* Lines 250-378 up to the next await: route resolution (which may throw), then the
\* approval branch (store the ticket, then notify or emit the fallback event) or the
\* call of the AI dispatcher.
RouteAndBranch(r, rq, routeOk, id, evtOk) ==
    LET data == rq.input.body.data
        routed == Logged(rq, IF routeOk THEN "resolveAgentRoute" ELSE "resolveAgentRouteThrew",
                         <<>>, <<>>)
    IN  IF ~routeOk THEN Finish(r, RespondError(routed))
        ELSE IF config.approvalMode
        THEN LET stored == storePendingReply(pendingReplies, now, id,
                              [crispSessionId |-> data.session_id,
                               crispWebsiteId |-> data.website_id,
                               visitorName |-> VisitorName(data),
                               visitorMessage |-> MessageText(data),
                               proposedReply |-> <<>>,
                               accountId |-> rq.accountId])
                 kept == [Logged(routed, "storePendingReply", MessageText(data), id)
                             EXCEPT !.ticket = id]
             IN  /\ pendingReplies' = stored.store
                 /\ pendingOrder' = OrderAfter(pendingOrder, stored.store)
                 /\ req' = [req EXCEPT ![r] =
                       IF config.telegramConfigured
                       THEN [Logged(kept, "sendTelegramNotification", MessageText(data), id)
                                EXCEPT !.pc = "telegram"]
                       ELSE RespondOk(Logged(kept,
                                IF evtOk THEN "enqueueSystemEvent" ELSE "enqueueSystemEventThrew",
                                MessageText(data), id))]
        ELSE Finish(r, [Logged(routed, "dispatch", MessageText(data), <<>>)
                           EXCEPT !.pc = "dispatch"])

\* A plausible slip: the check that both modes are disabled is missing.
InboundMessage_NoDisabledCheck(r, rq, routeOk, id, evtOk) ==
    LET body == rq.input.body
        data == body.data
    IN  IF ~body.hasData
        THEN /\ Finish(r, RespondError(rq))
             /\ UNCHANGED <<activeSessions, bgSessions>>
        ELSE IF Skipped(data)
        THEN /\ Finish(r, RespondOk(rq))
             /\ UNCHANGED <<activeSessions, bgSessions>>
        ELSE LET tracked == trackSession(activeSessions, bgSessions, now, data.session_id,
                                         data.website_id, rq.accountId, VisitorName(data), UNDEF)
                 seen == [rq EXCEPT !.isNew = IF tracked.ret.isNew THEN "true" ELSE "false"]
             IN  /\ tracked.ret.messageCount <= MaxMessageCount
                 /\ activeSessions' = tracked.sessions
                 /\ bgSessions' = tracked.bg
                 /\ IF runtime = UNDEF
                    THEN Finish(r, RespondOk(seen))
                    ELSE IF config.historyLimit > 0
                    THEN Finish(r, [Logged(seen, "getMessages", <<>>, <<>>) EXCEPT !.pc = "history"])
                    ELSE RouteAndBranch(r, seen, routeOk, id, evtOk)

\* Lines 170-248 of handleInboundMessage, up to the first await.
InboundMessage(r, rq, routeOk, id, evtOk) ==
    LET body == rq.input.body
        data == body.data
    IN  IF ~body.hasData
        THEN /\ Finish(r, RespondError(rq))       \* `data.from` of undefined throws
             /\ UNCHANGED <<activeSessions, bgSessions>>
        ELSE IF Skipped(data)
        THEN /\ Finish(r, RespondOk(rq))
             /\ UNCHANGED <<activeSessions, bgSessions>>
        ELSE LET tracked == trackSession(activeSessions, bgSessions, now, data.session_id,
                                         data.website_id, rq.accountId, VisitorName(data), UNDEF)
                 \* line 202: `session.isNew` is read as soon as trackSession has returned
                 seen == [rq EXCEPT !.isNew = IF tracked.ret.isNew THEN "true" ELSE "false"]
             IN  /\ tracked.ret.messageCount <= MaxMessageCount
                 /\ activeSessions' = tracked.sessions
                 /\ bgSessions' = tracked.bg
                 /\ IF ~config.autoReply /\ ~config.approvalMode
                    THEN Finish(r, RespondOk(seen))
                    ELSE IF runtime = UNDEF
                    THEN Finish(r, RespondOk(seen))
                    ELSE IF config.historyLimit > 0
                    THEN Finish(r, [Logged(seen, "getMessages", <<>>, <<>>) EXCEPT !.pc = "history"])
                    ELSE RouteAndBranch(r, seen, routeOk, id, evtOk)

\* A plausible slip: the email is kept in a new session when none is tracked.
SetEmail_CreatesSession(sessions, data) ==
    IF data.email \in {UNDEF, ""} THEN sessions
    ELSE IF data.session_id \in DOMAIN sessions
    THEN MapSet(sessions, data.session_id,
                [sessions[data.session_id] EXCEPT !.visitorEmail = data.email])
    ELSE MapSet(sessions, data.session_id,
                NewSession(0, data.session_id, UNDEF, UNDEF, "Visitor", data.email))

\* Lines 434-439: session:set_email.
SetEmail(sessions, data) ==
    IF data.session_id \in DOMAIN sessions /\ data.email \notin {UNDEF, ""}
    THEN MapSet(sessions, data.session_id,
                [sessions[data.session_id] EXCEPT !.visitorEmail = data.email])
    ELSE sessions

\* The positions at which inbound-message handling is suspended on an external call.
Suspended == {"history", "telegram", "dispatch", "deliverSend", "deliverResolve"}

\* A plausible slip: the handler serialises requests, and goes on with a body only when
\* no other request is waiting for an external call.
H_Body_WaitsForOthers(r, routeOk, id, evtOk) ==
    /\ req[r].pc = "parsing"
    /\ \A o \in Reqs \ {r} : req[o].pc \notin Suspended
    /\ LET rq == req[r]
           body == rq.input.body
       IN  IF body.kind = "invalid"               \* JSON.parse throws
           THEN Finish(r, RespondError(rq)) /\ UNCHANGED <<activeSessions, bgSessions>>
           ELSE IF body.kind = "null"             \* `body.event` of null throws
           THEN Finish(r, RespondError(rq)) /\ UNCHANGED <<activeSessions, bgSessions>>
           ELSE IF body.event = "message:send"
           THEN InboundMessage(r, rq, routeOk, id, evtOk)
           ELSE IF body.event = "session:set_state"   \* `body.data.session_id` is read
           THEN /\ Finish(r, IF body.hasData THEN RespondOk(rq) ELSE RespondError(rq))
                /\ UNCHANGED <<activeSessions, bgSessions>>
           ELSE IF body.event = "session:set_email"
           THEN IF body.hasData
                THEN /\ activeSessions' = SetEmail(activeSessions, body.data)
                     /\ Finish(r, RespondOk(rq))
                     /\ UNCHANGED bgSessions
                ELSE Finish(r, RespondError(rq)) /\ UNCHANGED <<activeSessions, bgSessions>>
           ELSE Finish(r, RespondOk(rq)) /\ UNCHANGED <<activeSessions, bgSessions>>
    /\ UNCHANGED <<v, vPrev, fetch, tg, accounts, now, runtime, config, att, trk, obs>>

\* Lines 416-455: the body has arrived; parse it and route by event type.
H_Body(r, routeOk, id, evtOk) ==
    /\ req[r].pc = "parsing"
    /\ LET rq == req[r]
           body == rq.input.body
       IN  IF body.kind = "invalid"               \* JSON.parse throws
           THEN Finish(r, RespondError(rq)) /\ UNCHANGED <<activeSessions, bgSessions>>
           ELSE IF body.kind = "null"             \* `body.event` of null throws
           THEN Finish(r, RespondError(rq)) /\ UNCHANGED <<activeSessions, bgSessions>>
           ELSE IF body.event = "message:send"
           THEN InboundMessage(r, rq, routeOk, id, evtOk)
           ELSE IF body.event = "session:set_state"   \* `body.data.session_id` is read
           THEN /\ Finish(r, IF body.hasData THEN RespondOk(rq) ELSE RespondError(rq))
                /\ UNCHANGED <<activeSessions, bgSessions>>
           ELSE IF body.event = "session:set_email"
           THEN IF body.hasData
                THEN /\ activeSessions' = SetEmail(activeSessions, body.data)
                     /\ Finish(r, RespondOk(rq))
                     /\ UNCHANGED bgSessions
                ELSE Finish(r, RespondError(rq)) /\ UNCHANGED <<activeSessions, bgSessions>>
           ELSE Finish(r, RespondOk(rq)) /\ UNCHANGED <<activeSessions, bgSessions>>
    /\ UNCHANGED <<v, vPrev, fetch, tg, accounts, now, runtime, config, att, trk, obs>>

\* Lines 228-243: getMessages has returned or failed (the failure is caught); the
\* handler goes on to route resolution.
H_HistoryReturn(r, ok, routeOk, id, evtOk) ==
    /\ req[r].pc = "history"
    /\ RouteAndBranch(r, [req[r] EXCEPT !.history = IF ok THEN "fetched" ELSE "failed"],
                      routeOk, id, evtOk)
    /\ UNCHANGED <<v, vPrev, fetch, tg, accounts, now, runtime, config, activeSessions, bgSessions, att, trk, obs>>

\* How the awaited sendTelegramNotification can end: ok with a message ID, ok without
\* one, ok:false (the API refused, or fetch threw and the function caught it), or a
\* rejection (caught at monitor.ts:325).
TelegramResults ==
    {[threw |-> FALSE, ok |-> TRUE, messageId |-> m] : m \in TelegramMessageIds}
    \cup {[threw |-> FALSE, ok |-> TRUE, messageId |-> UNDEF],
          [threw |-> FALSE, ok |-> FALSE, messageId |-> UNDEF],
          [threw |-> TRUE, ok |-> FALSE, messageId |-> UNDEF]}

\* A plausible slip: when the notification fails the fallback system event is emitted
\* as well.
H_TelegramReturn_FallsBack(r, result) ==
    /\ req[r].pc = "telegram"
    /\ LET rq == req[r]
       IN  IF ~result.threw /\ result.ok /\ result.messageId # UNDEF
           THEN /\ pendingReplies' = updatePendingReplyTelegram(pendingReplies, rq.ticket,
                                         result.messageId, config.approvalChatId)
                /\ UNCHANGED pendingOrder
                /\ req' = [req EXCEPT ![r] =
                      RespondOk(Logged(rq, "updatePendingReplyTelegram", <<>>, rq.ticket))]
           ELSE Finish(r, RespondOk(Logged(Logged(rq, IF result.threw THEN "telegramThrew"
                                                       ELSE "telegramFailed", <<>>, rq.ticket),
                                           "enqueueSystemEvent", <<>>, rq.ticket)))
    /\ UNCHANGED <<v, vPrev, fetch, tg, accounts, now, runtime, config, activeSessions, bgSessions, att, trk, obs>>

\* A plausible slip: a failed notification is not caught and fails the request.
H_TelegramReturn_FailsRequest(r, result) ==
    /\ req[r].pc = "telegram"
    /\ LET rq == req[r]
       IN  IF ~result.threw /\ result.ok /\ result.messageId # UNDEF
           THEN /\ pendingReplies' = updatePendingReplyTelegram(pendingReplies, rq.ticket,
                                         result.messageId, config.approvalChatId)
                /\ UNCHANGED pendingOrder
                /\ req' = [req EXCEPT ![r] =
                      RespondOk(Logged(rq, "updatePendingReplyTelegram", <<>>, rq.ticket))]
           ELSE Finish(r, RespondError(Logged(rq, IF result.threw THEN "telegramThrew"
                                                  ELSE "telegramFailed", <<>>, rq.ticket)))
    /\ UNCHANGED <<v, vPrev, fetch, tg, accounts, now, runtime, config, activeSessions, bgSessions, att, trk, obs>>

\* telegram-notify.ts:29-47, seen from outside: Telegram has accepted the sendMessage
\* call and delivered the prompt to the chat as message m; the response is on its way
\* and the handler is still suspended at monitor.ts:311.
H_TelegramDelivers(r, m) ==
    /\ req[r].pc = "telegram"
    /\ req[r].prompt = UNDEF
    /\ Finish(r, [req[r] EXCEPT !.prompt = m])
    /\ UNCHANGED <<v, vPrev, fetch, tg, accounts, now, runtime, config, activeSessions, bgSessions, att, trk, obs>>

\* Lines 318-345: sendTelegramNotification has returned; attach the message ID to the
\* ticket when there is one, then return and answer.  A message ID in the result is
\* the ID of the prompt Telegram delivered.
H_TelegramReturn(r, result) ==
    /\ req[r].pc = "telegram"
    /\ (req[r].prompt # UNDEF /\ result.messageId # UNDEF) => result.messageId = req[r].prompt
    /\ LET rq == req[r]
       IN  IF ~result.threw /\ result.ok /\ result.messageId # UNDEF
           THEN /\ pendingReplies' = updatePendingReplyTelegram(pendingReplies, rq.ticket,
                                         result.messageId, config.approvalChatId)
                /\ UNCHANGED pendingOrder
                /\ req' = [req EXCEPT ![r] =
                      RespondOk(Logged(rq, "updatePendingReplyTelegram", <<>>, rq.ticket))]
           ELSE Finish(r, RespondOk(Logged(rq, IF result.threw THEN "telegramThrew"
                                               ELSE "telegramFailed", <<>>, rq.ticket)))
    /\ UNCHANGED <<v, vPrev, fetch, tg, accounts, now, runtime, config, activeSessions, bgSessions, att, trk, obs>>

----------------------------------------------------------------------------
(* The AI dispatcher and the deliver callback (auto-reply branch)          *)

RECURSIVE TrimLeft(_)
TrimLeft(t) == IF t # <<>> /\ Head(t) = " " THEN TrimLeft(Tail(t)) ELSE t

RECURSIVE TrimRight(_)
TrimRight(t) ==
    IF t # <<>> /\ t[Len(t)] = " " THEN TrimRight(SubSeq(t, 1, Len(t) - 1)) ELSE t

\* String.prototype.trim
Trim(t) == TrimRight(TrimLeft(t))

\* The `text` of the payloads the dispatcher hands to deliver().
DeliverTexts == {None, Some(<<" ">>), Some(<<" ", "h", "i", " ">>)}

\* A plausible slip: the dispatcher is started and not awaited, so the request is
\* answered while the dispatch is still running.
D_Deliver_AfterAnswer(r, text) ==
    /\ req[r].pc = "dispatch"
    /\ req[r].delivers < MaxDelivers
    /\ LET called == [Logged(req[r], IF text.has THEN "deliver" ELSE "deliverNoText",
                             text.val, <<>>) EXCEPT !.delivers = @ + 1, !.status = 200,
                                                    !.respBody = "{ok:true}"]
           trimmed == IF text.has THEN Trim(text.val) ELSE <<>>
       IN  IF trimmed = <<>>
           THEN Finish(r, called)
           ELSE Finish(r, [Logged(called, "sendMessage", trimmed, <<>>)
                              EXCEPT !.pc = "deliverSend"])
    /\ UNCHANGED <<v, vPrev, fetch, tg, accounts, now, runtime, config, activeSessions, bgSessions, att, trk, obs>>

\* A plausible slip: the reply is sent without the empty-text check.
D_Deliver_NoTextCheck(r, text) ==
    /\ req[r].pc = "dispatch"
    /\ req[r].delivers < MaxDelivers
    /\ LET called == [Logged(req[r], IF text.has THEN "deliver" ELSE "deliverNoText",
                             text.val, <<>>) EXCEPT !.delivers = @ + 1]
       IN  Finish(r, [Logged(called, "sendMessage", Trim(text.val), <<>>)
                         EXCEPT !.pc = "deliverSend"])
    /\ UNCHANGED <<v, vPrev, fetch, tg, accounts, now, runtime, config, activeSessions, bgSessions, att, trk, obs>>

\* Lines 356-364: the dispatcher calls deliver(payload); an empty text returns at once,
\* any other is sent with client.sendMessage.
D_Deliver(r, text) ==
    /\ req[r].pc = "dispatch"
    /\ req[r].delivers < MaxDelivers
    /\ LET called == [Logged(req[r], IF text.has THEN "deliver" ELSE "deliverNoText",
                             text.val, <<>>) EXCEPT !.delivers = @ + 1]
           trimmed == IF text.has THEN Trim(text.val) ELSE <<>>
       IN  IF trimmed = <<>>
           THEN Finish(r, called)
           ELSE Finish(r, [Logged(called, "sendMessage", trimmed, <<>>)
                              EXCEPT !.pc = "deliverSend"])
    /\ UNCHANGED <<v, vPrev, fetch, tg, accounts, now, runtime, config, activeSessions, bgSessions, att, trk, obs>>

\* A plausible slip: the conversation is resolved whenever resolveOnReply is set,
\* whether or not the send succeeded.
D_SendReturn_ResolvesAnyway(r, ok) ==
    /\ req[r].pc = "deliverSend"
    /\ IF config.resolveOnReply
       THEN Finish(r, [Logged(Logged(req[r], IF ok THEN "sendMessageOk" ELSE "sendMessageFailed",
                                     <<>>, <<>>),
                              "updateConversationState", <<>>, <<>>)
                          EXCEPT !.pc = "deliverResolve"])
       ELSE Finish(r, [Logged(req[r], IF ok THEN "sendMessageOk" ELSE "sendMessageFailed",
                              <<>>, <<>>) EXCEPT !.pc = "dispatch"])
    /\ UNCHANGED <<v, vPrev, fetch, tg, accounts, now, runtime, config, activeSessions, bgSessions, att, trk, obs>>

\* Lines 360-369: sendMessage has returned or failed.  On success the conversation is
\* resolved when resolveOnReply is set; on failure deliver() rejects into the dispatcher.
D_SendReturn(r, ok) ==
    /\ req[r].pc = "deliverSend"
    /\ IF ok /\ config.resolveOnReply
       THEN Finish(r, [Logged(Logged(req[r], "sendMessageOk", <<>>, <<>>),
                              "updateConversationState", <<>>, <<>>)
                          EXCEPT !.pc = "deliverResolve"])
       ELSE Finish(r, [Logged(req[r], IF ok THEN "sendMessageOk" ELSE "sendMessageFailed",
                              <<>>, <<>>) EXCEPT !.pc = "dispatch"])
    /\ UNCHANGED <<v, vPrev, fetch, tg, accounts, now, runtime, config, activeSessions, bgSessions, att, trk, obs>>

\* Line 368: updateConversationState has returned or failed; deliver() is over.
D_ResolveReturn(r, ok) ==
    /\ req[r].pc = "deliverResolve"
    /\ Finish(r, [Logged(req[r], IF ok THEN "resolveOk" ELSE "resolveFailed", <<>>, <<>>)
                     EXCEPT !.pc = "dispatch"])
    /\ UNCHANGED <<v, vPrev, fetch, tg, accounts, now, runtime, config, activeSessions, bgSessions, att, trk, obs>>

\* Lines 351-378 and 445-448: the dispatcher returns, or throws into the catch block
\* of handleInboundMessage; either way the handler answers.
D_Finish(r, threw) ==
    /\ req[r].pc = "dispatch"
    /\ Finish(r, RespondOk(Logged(req[r], IF threw THEN "dispatchThrew" ELSE "dispatchReturned",
                                  <<>>, <<>>)))
    /\ UNCHANGED <<v, vPrev, fetch, tg, accounts, now, runtime, config, activeSessions, bgSessions, att, trk, obs>>

----------------------------------------------------------------------------
(* The environment: plugin registration and the clock                      *)

\* Latest hour the clock reaches by single hours.
MaxTime == 2

\* register(): setCrispRuntime(api.runtime), then the HTTP handler is registered.
Register ==
    /\ runtime = UNDEF
    /\ runtime' = "core"
    /\ UNCHANGED <<v, vPrev, fetch, tg, accounts, now, config, activeSessions, bgSessions, pendingReplies, pendingOrder, req, att, trk, obs>>

\* An hour passes.
Tick ==
    /\ now < MaxTime
    /\ now' = now + 1
    /\ UNCHANGED <<v, vPrev, fetch, tg, accounts, runtime, config, activeSessions, bgSessions, pendingReplies, pendingOrder, req, att, trk, obs>>

----------------------------------------------------------------------------
(* Specification of the webhook handler                                    *)

AttemptIds == {"a1", "a2"}

AttIdle == [pc |-> "idle", id |-> <<>>, key |-> <<>>, log |-> <<>>, result |-> "none"]

TrkIdle == [accepted |-> [s \in SessionIds |-> 0], called |-> FALSE, sid |-> "s1", k |-> 0,
            ret |-> NewSession(0, "s1", "w1", "acct1", "Visitor", UNDEF), evicted |-> 0]

\* No crispFetch call is running.
FetchIdle ==
    [pc |-> "idle", op |-> "none", timer |-> "none", aborted |-> FALSE, status |-> 0,
     envelope |-> "none", outcome |-> "none"]

\* No notification text has been built.
TgIdle == [pc |-> "idle", pendingId |-> <<>>, visitorName |-> <<>>, visitorMessage |-> <<>>,
           text |-> <<>>]

\* No store or session operation has been called directly yet.
ObsIdle ==
    [op |-> "none", id |-> <<>>, m |-> UNDEF, c |-> UNDEF, found |-> FALSE, key |-> <<>>,
     evicted |-> FALSE, removed |-> FALSE, listed |-> <<>>, issued |-> {},
     sid |-> UNDEF, email |-> UNDEF, repeated |-> FALSE]

TicketParams(sid, text) ==
    [crispSessionId |-> sid, crispWebsiteId |-> "w1", visitorName |-> "Visitor",
     visitorMessage |-> text, proposedReply |-> <<>>, accountId |-> "acct1"]

\* Stores the program can be in when a request arrives: both empty, or holding what an
\* earlier visitor message of conversation s1 left in approval mode.
InitialStores ==
    {[sessions |-> EmptyMap, pending |-> EmptyMap, order |-> <<>>],
     [sessions |-> trackSession(EmptyMap, 0, 0, "s1", "w1", "acct1", "Visitor", UNDEF).sessions,
      pending |-> storePendingReply(EmptyMap, 0, <<"B", "2">>, TicketParams("s1", HiText)).store,
      order |-> <<<<"B", "2">>>>]}

\* No account list is resolved: the handler is called with one configuration.
NoAccounts == <<>>

InitCalls ==
    /\ v = VIdle
    /\ vPrev = NoPrev
    /\ req = [r \in Reqs |-> ReqIdle]
    /\ att = [a \in AttemptIds |-> AttIdle]
    /\ trk = TrkIdle
    /\ obs = ObsIdle
    /\ fetch = FetchIdle
    /\ tg = TgIdle
    /\ now = 0
    /\ bgSessions = 0

InitIdle ==
    /\ InitCalls
    /\ accounts = NoAccounts

Init ==
    /\ InitIdle
    /\ runtime = UNDEF
    /\ config \in Configs
    /\ \E st \in InitialStores :
          /\ activeSessions = st.sessions
          /\ pendingReplies = st.pending
          /\ pendingOrder = st.order

Next ==
    \/ Register
    \/ Tick
    \/ \E r \in FirstReq, input \in RequestInputs : H_Request(r, input)
    \/ \E r \in FirstReq, routeOk \in BOOLEAN, id \in GeneratedIds, evtOk \in BOOLEAN :
          H_Body(r, routeOk, id, evtOk)
    \/ \E r \in FirstReq, ok \in BOOLEAN, routeOk \in BOOLEAN, id \in GeneratedIds, evtOk \in BOOLEAN :
          H_HistoryReturn(r, ok, routeOk, id, evtOk)
    \/ \E r \in FirstReq, result \in TelegramResults : H_TelegramReturn(r, result)
    \/ \E r \in FirstReq, text \in DeliverTexts : D_Deliver(r, text)
    \/ \E r \in FirstReq, ok \in BOOLEAN : D_SendReturn(r, ok)
    \/ \E r \in FirstReq, ok \in BOOLEAN : D_ResolveReturn(r, ok)
    \/ \E r \in FirstReq, threw \in BOOLEAN : D_Finish(r, threw)

Spec == Init /\ [][Next]_vars

\* Everything but the validateWebhookSecret call, the crispFetch call and the
\* notification text.
HandlerVarsButFetch ==
    <<accounts, now, runtime, config, activeSessions, bgSessions, pendingReplies, pendingOrder, req, att, trk, obs>>

----------------------------------------------------------------------------
(* Specification of validateWebhookSecret, run step by step                *)

HandlerVars ==
    <<accounts, now, runtime, config, activeSessions, bgSessions, pendingReplies, pendingOrder, req, att, trk, obs,
      fetch, tg>>

DefaultConfig ==
    [webhookPath |-> DEFAULT_WEBHOOK_PATH, webhookSecret |-> ConfiguredSecret,
     autoReply |-> TRUE, approvalMode |-> FALSE, resolveOnReply |-> FALSE,
     telegramConfigured |-> FALSE, approvalChatId |-> "chat1", historyLimit |-> 0]

InitSecret ==
    /\ InitIdle
    /\ runtime = UNDEF
    /\ config = DefaultConfig
    /\ activeSessions = EmptyMap
    /\ pendingReplies = EmptyMap
    /\ pendingOrder = <<>>

NextSecret ==
    \/ \E provided \in SecretValues, expected \in SecretValues :
          V_Call(provided, expected) /\ UNCHANGED HandlerVars
    \/ V_Guards /\ UNCHANGED HandlerVars
    \/ V_LoopStep /\ UNCHANGED HandlerVars
    \/ V_Return /\ UNCHANGED HandlerVars

SpecSecret == InitSecret /\ [][NextSecret]_vars

----------------------------------------------------------------------------
(* Resolution of an approval ticket: getPendingReply, sendCrispReply,      *)
(* removePendingReply                                                      *)

\* The IDs a resolver looks tickets up by: as generated, and in lower case.
LookupIds == GeneratedIds \cup {<<"a", "1">>}

ReplyText == <<"o", "k">>

\* The attempt is over: removePendingReply(id), with the result of sendCrispReply.
A_Remove(a, rec, result) ==
    /\ pendingReplies' = removePendingReply(pendingReplies, rec.id)
    /\ pendingOrder' = OrderAfter(pendingOrder, pendingReplies')
    /\ att' = [att EXCEPT ![a] = [rec EXCEPT !.pc = "done", !.result = result]]

\* getPendingReply(id); when the ticket is there, sendCrispReply is called with its
\* conversation and site, and runs to `await client.sendMessage` (monitor.ts:143).
A_Get(a, id) ==
    /\ att[a].pc = "idle"
    /\ LET got == getPendingReply(pendingReplies, now, id)
       IN  /\ pendingReplies' = got.store
           /\ pendingOrder' = OrderAfter(pendingOrder, got.store)
           /\ att' = [att EXCEPT ![a] =
                 IF got.found
                 THEN [AttIdle EXCEPT !.pc = "send", !.id = id, !.key = got.key,
                          !.log = <<Ev("sendMessage", pendingReplies[got.key].crispSessionId,
                                       pendingReplies[got.key].crispWebsiteId, ReplyText, got.key)>>]
                 ELSE [AttIdle EXCEPT !.pc = "done", !.id = id, !.key = got.key,
                          !.result = "absent"]]
    /\ UNCHANGED <<v, vPrev, fetch, tg, accounts, now, runtime, config, activeSessions, bgSessions, req, trk, obs>>

\* monitor.ts:143-157: sendMessage has returned or failed.  On success with
\* resolveOnReply the state update is awaited; otherwise sendCrispReply returns and
\* the resolver removes the ticket.
A_SendReturn(a, ok) ==
    /\ att[a].pc = "send"
    /\ LET rec == [att[a] EXCEPT !.log =
                      Append(@, Ev(IF ok THEN "sendMessageOk" ELSE "sendMessageFailed",
                                   att[a].log[1].sid, att[a].log[1].wid, <<>>, att[a].key))]
       IN  IF ok /\ config.resolveOnReply
           THEN /\ att' = [att EXCEPT ![a] =
                      [rec EXCEPT !.pc = "resolve",
                                  !.log = Append(@, Ev("updateConversationState", rec.log[1].sid,
                                                       rec.log[1].wid, <<>>, rec.key))]]
                /\ UNCHANGED <<pendingReplies, pendingOrder>>
           ELSE A_Remove(a, rec, IF ok THEN "ok" ELSE "failed")
    /\ UNCHANGED <<v, vPrev, fetch, tg, accounts, now, runtime, config, activeSessions, bgSessions, req, trk, obs>>

\* monitor.ts:151-157: updateConversationState has returned (ok:true) or failed (the
\* catch block returns ok:false); the resolver removes the ticket.
A_ResolveReturn(a, ok) ==
    /\ att[a].pc = "resolve"
    /\ A_Remove(a, att[a], IF ok THEN "ok" ELSE "failed")
    /\ UNCHANGED <<v, vPrev, fetch, tg, accounts, now, runtime, config, activeSessions, bgSessions, req, trk, obs>>

\* Two live tickets, stored at hour 0 by two visitor messages.
TwoTickets ==
    storePendingReply(
        storePendingReply(EmptyMap, 0, <<"A", "1">>, TicketParams("s1", HiText)).store,
        0, <<"B", "2">>, TicketParams("s2", <<>>)).store

InitResolve ==
    /\ InitIdle
    /\ runtime = "core"
    /\ config \in Configs
    /\ activeSessions = EmptyMap
    /\ pendingReplies = TwoTickets
    /\ pendingOrder = <<<<"A", "1">>, <<"B", "2">>>>

NextResolve ==
    \/ Tick
    \/ \E a \in AttemptIds, id \in LookupIds : A_Get(a, id)
    \/ \E a \in AttemptIds, ok \in BOOLEAN : A_SendReturn(a, ok)
    \/ \E a \in AttemptIds, ok \in BOOLEAN : A_ResolveReturn(a, ok)

SpecResolve == InitResolve /\ [][NextResolve]_vars

----------------------------------------------------------------------------
(* The session tracker on its own: trackSession called message by message  *)

\* A day passes.
TickDay ==
    /\ now < SESSION_TTL
    /\ now' = now + SESSION_TTL
    /\ UNCHANGED <<v, vPrev, fetch, tg, accounts, runtime, config, activeSessions, bgSessions, pendingReplies, pendingOrder, req, att, trk, obs>>

\* An accepted visitor message of conversation sid reaches trackSession
\* (monitor.ts:194-200).  trk counts the messages accepted since the conversation's
\* session was created, and keeps the session the call returned.
T_Track(sid, visitorName) ==
    /\ trk.accepted[sid] < MaxMessageCount
    /\ LET tracked == trackSession(activeSessions, bgSessions, now, sid, "w1", "acct1",
                                   visitorName, UNDEF)
           k == trk.accepted[sid] + 1
       IN  /\ activeSessions' = tracked.sessions
           /\ bgSessions' = tracked.bg
           /\ trk' = [accepted |-> [s \in SessionIds |->
                                      IF s = sid THEN k
                                      ELSE IF s \in DOMAIN activeSessions
                                              /\ s \notin DOMAIN tracked.sessions
                                           THEN 0 ELSE trk.accepted[s]],
                      called |-> TRUE, sid |-> sid, k |-> k, ret |-> tracked.ret,
                      evicted |-> Cardinality(DOMAIN activeSessions \cup {sid}) + bgSessions
                                  - (Cardinality(DOMAIN tracked.sessions) + tracked.bg)]
           /\ obs' = ObsIdle
    /\ UNCHANGED <<v, vPrev, fetch, tg, accounts, now, runtime, config, pendingReplies, pendingOrder, req, att>>

\* The emails of session:set_email events: two addresses, and an empty one.
Emails == {"e1", "e2", ""}

\* A session:set_email event of conversation sid is dispatched (monitor.ts:434-439).
\* obs keeps the event, and whether it is the event dispatched just before, with no
\* visitor message in between.
E_SetEmail(sid, email) ==
    /\ activeSessions' = SetEmail(activeSessions, [session_id |-> sid, email |-> email])
    /\ obs' = [ObsIdle EXCEPT !.op = "set_email", !.sid = sid, !.email = email,
                  !.repeated = (obs.op = "set_email" /\ obs.sid = sid /\ obs.email = email)]
    /\ UNCHANGED <<v, vPrev, fetch, tg, accounts, now, runtime, config, bgSessions, pendingReplies, pendingOrder, req,
                   att, trk>>

InitSession ==
    /\ v = VIdle
    /\ vPrev = NoPrev
    /\ req = [r \in Reqs |-> ReqIdle]
    /\ att = [a \in AttemptIds |-> AttIdle]
    /\ trk = TrkIdle
    /\ obs = ObsIdle
    /\ fetch = FetchIdle
    /\ tg = TgIdle
    /\ accounts = NoAccounts
    /\ now = 0
    /\ bgSessions \in {0, SESSION_SWEEP_THRESHOLD - 1, SESSION_SWEEP_THRESHOLD}
    /\ runtime = "core"
    /\ config = DefaultConfig
    /\ activeSessions = EmptyMap
    /\ pendingReplies = EmptyMap
    /\ pendingOrder = <<>>

NextSession ==
    \/ Tick
    \/ TickDay
    \/ \E sid \in SessionIds, visitorName \in {"Visitor", "Ann"} : T_Track(sid, visitorName)

SpecSession == InitSession /\ [][NextSession]_vars

----------------------------------------------------------------------------
(* session:set_email events among the visitor messages of two conversations *)

InitEmail ==
    /\ InitIdle
    /\ runtime = "core"
    /\ config = DefaultConfig
    /\ activeSessions = EmptyMap
    /\ pendingReplies = EmptyMap
    /\ pendingOrder = <<>>

NextEmail ==
    \/ \E sid \in SessionIds, visitorName \in {"Visitor", "Ann"} : T_Track(sid, visitorName)
    \/ \E sid \in SessionIds, email \in Emails : E_SetEmail(sid, email)

SpecEmail == InitEmail /\ [][NextEmail]_vars

\* Visitor messages and session:set_email events of two conversations, hours apart.
NextFrame ==
    \/ Tick
    \/ \E sid \in SessionIds, visitorName \in {"Visitor", "Ann"} : T_Track(sid, visitorName)
    \/ \E sid \in SessionIds : E_SetEmail(sid, "e1")

SpecFrame == InitEmail /\ [][NextFrame]_vars

----------------------------------------------------------------------------
(* The pending-reply store on its own: its operations called one by one     *)

\* What the handler passes to storePendingReply for the visitor messages of two
\* conversations handled under two accounts.
StoreParams ==
    {[TicketParams("s1", HiText) EXCEPT !.accountId = "acct1"],
     [TicketParams("s2", <<>>) EXCEPT !.accountId = "acct2"]}

\* The notification chats of the accounts, and the IDs Telegram gives messages in them.
ChatIds == {"chat1", "chat2"}

\* What a direct call records: the operation and its argument; `issued` keeps the IDs
\* storePendingReply has returned so far.
Called(op, id) == [ObsIdle EXCEPT !.op = op, !.id = id, !.issued = obs.issued]

\* storePendingReply(params), generateId having drawn `id`.
S_Store(id, params) ==
    /\ LET stored == storePendingReply(pendingReplies, now, id, params)
       IN  /\ pendingReplies' = stored.store
           /\ pendingOrder' = OrderAfter(pendingOrder, stored.store)
           /\ obs' = [Called("store", id) EXCEPT !.key = stored.ret.id, !.issued = @ \cup {id},
                         !.evicted = (DOMAIN pendingReplies \ DOMAIN stored.store # {})]
    /\ UNCHANGED <<v, vPrev, fetch, tg, accounts, now, runtime, config, activeSessions, bgSessions, req, att, trk>>

\* getPendingReply(id)
S_Get(id) ==
    /\ LET got == getPendingReply(pendingReplies, now, id)
       IN  /\ pendingReplies' = got.store
           /\ pendingOrder' = OrderAfter(pendingOrder, got.store)
           /\ obs' = [Called("get", id) EXCEPT !.found = got.found,
                         !.key = IF got.found THEN got.key ELSE <<>>,
                         !.evicted = (got.store # pendingReplies)]
    /\ UNCHANGED <<v, vPrev, fetch, tg, accounts, now, runtime, config, activeSessions, bgSessions, req, att, trk>>

\* removePendingReply(id)
S_Remove(id) ==
    /\ pendingReplies' = removePendingReply(pendingReplies, id)
    /\ pendingOrder' = OrderAfter(pendingOrder, pendingReplies')
    /\ obs' = [Called("remove", id) EXCEPT !.removed = removePendingReplyReturns(pendingReplies, id)]
    /\ UNCHANGED <<v, vPrev, fetch, tg, accounts, now, runtime, config, activeSessions, bgSessions, req, att, trk>>

\* updatePendingReplyTelegram(id, m, c), m being the ID Telegram gave the notification
\* in chat c: no two messages of one chat have the same ID.
S_Update(id, m, c) ==
    /\ \A k \in DOMAIN pendingReplies :
          ~(pendingReplies[k].telegramMessageId = m /\ pendingReplies[k].telegramChatId = c)
    /\ pendingReplies' = updatePendingReplyTelegram(pendingReplies, id, m, c)
    /\ pendingOrder' = OrderAfter(pendingOrder, pendingReplies')
    /\ obs' = [Called("update", id) EXCEPT !.m = m, !.c = c]
    /\ UNCHANGED <<v, vPrev, fetch, tg, accounts, now, runtime, config, activeSessions, bgSessions, req, att, trk>>

\* findPendingReplyByTelegramMessage(m)
S_Find(m) ==
    /\ LET hit == findPendingReplyByTelegramMessage(pendingReplies, pendingOrder, m)
       IN  obs' = [Called("find", <<>>) EXCEPT !.m = m, !.found = hit.found, !.key = hit.key]
    /\ UNCHANGED <<v, vPrev, fetch, tg, accounts, now, runtime, config, activeSessions, bgSessions, pendingReplies,
                   pendingOrder, req, att, trk>>

\* getAllPendingReplies()
S_GetAll ==
    /\ LET all == getAllPendingReplies(pendingReplies, pendingOrder, now)
       IN  obs' = [Called("getAll", <<>>) EXCEPT !.listed = [i \in 1..Len(all) |-> all[i].id]]
    /\ UNCHANGED <<v, vPrev, fetch, tg, accounts, now, runtime, config, activeSessions, bgSessions, pendingReplies,
                   pendingOrder, req, att, trk>>

InitStore ==
    /\ InitIdle
    /\ runtime = "core"
    /\ config = DefaultConfig
    /\ activeSessions = EmptyMap
    /\ pendingReplies = EmptyMap
    /\ pendingOrder = <<>>

NextStore ==
    \/ Tick
    \/ \E id \in GeneratedIds, params \in StoreParams : S_Store(id, params)
    \/ \E id \in LookupIds : S_Get(id)
    \/ \E id \in LookupIds : S_Remove(id)
    \/ \E id \in LookupIds, m \in TelegramMessageIds, c \in ChatIds : S_Update(id, m, c)
    \/ \E m \in TelegramMessageIds : S_Find(m)
    \/ S_GetAll

SpecStore == InitStore /\ [][NextStore]_vars

----------------------------------------------------------------------------
(* The API gateway: crispFetch, through which every provider call goes     *)

\* The calls of the client, all of which await crispFetch.
ApiCalls == {"sendMessage", "getConversation", "getMessages", "updateConversationState"}

\* HTTP statuses the provider answers with, on both sides of the 2xx range.
Statuses == {199, 200, 204, 299, 300, 404, 500}

\* What response.json() can give: a rejection (the body is not JSON, or the request
\* was aborted while the body was read), the value null, or an envelope whose error
\* flag is true, false or missing and which carries data or not.
JsonResults ==
    {[kind |-> k, error |-> "none", hasData |-> FALSE] : k \in {"rejected", "null"}}
    \cup {[kind |-> "object", error |-> e, hasData |-> d] :
             e \in {"true", "false", "missing"}, d \in BOOLEAN}

\* A plausible slip: the status is not looked at.
ResponseOk_Always(status) == TRUE

\* Response.ok: the status is in the range 200-299.
ResponseOk(status) == status >= 200 /\ status <= 299

\* Lines 94-96 and the return or throw before them: the call is over, with a value or
\* an exception, and the finally block clears the timer.
Settle(outcome) == [fetch EXCEPT !.pc = "done", !.outcome = outcome, !.timer = "cleared"]

\* Lines 63-68: a client call enters crispFetch, which arms the timer and awaits fetch.
F_Call(op) ==
    /\ fetch.pc = "idle"
    /\ fetch' = [FetchIdle EXCEPT !.pc = "fetching", !.op = op, !.timer = "armed"]
    /\ UNCHANGED <<v, vPrev, tg, HandlerVarsButFetch>>

\* Line 65: the timer fires while the call is suspended: controller.abort().
F_Timeout ==
    /\ fetch.pc \in {"fetching", "readingError", "readingJson"}
    /\ fetch.timer = "armed"
    /\ fetch' = [fetch EXCEPT !.timer = "fired", !.aborted = TRUE]
    /\ UNCHANGED <<v, vPrev, tg, HandlerVarsButFetch>>

\* Lines 68-86: fetch resolves with a response; a status outside 2xx leads to reading
\* the error body, any other to reading the JSON body.
F_Response(status) ==
    /\ fetch.pc = "fetching"
    /\ ~fetch.aborted
    /\ fetch' = [fetch EXCEPT !.status = status,
                              !.pc = IF ResponseOk(status) THEN "readingJson" ELSE "readingError"]
    /\ UNCHANGED <<v, vPrev, tg, HandlerVarsButFetch>>

\* Line 68: fetch rejects: a network failure, or the abort.
F_Reject ==
    /\ fetch.pc = "fetching"
    /\ fetch' = Settle("failure")
    /\ UNCHANGED <<v, vPrev, tg, HandlerVarsButFetch>>

\* Lines 80-83: the error body was read, or reading it failed and "" stands for it;
\* the error is thrown.
F_ErrorBody ==
    /\ fetch.pc = "readingError"
    /\ fetch' = Settle("failure")
    /\ UNCHANGED <<v, vPrev, tg, HandlerVarsButFetch>>

\* Lines 86-93 and the caller's use of the value (lines 116, 121, 131, 140):
\* response.json() has settled.  A rejection, null (reading `error` of null throws) and
\* a truthy error flag are failures; otherwise json.data is returned, and sendMessage
\* reads `fingerprint` of it, which throws when there is no data.
F_Json(json) ==
    /\ fetch.pc = "readingJson"
    /\ fetch.aborted => json.kind = "rejected"
    /\ fetch' = [Settle(IF json.kind \in {"rejected", "null"} THEN "failure"
                        ELSE IF json.error = "true" THEN "failure"
                        ELSE IF fetch.op = "sendMessage" /\ ~json.hasData THEN "failure"
                        ELSE "success")
                    EXCEPT !.envelope = IF json.kind = "object" THEN json.error ELSE json.kind]
    /\ UNCHANGED <<v, vPrev, tg, HandlerVarsButFetch>>

\* The caller has the result; the client is ready for its next call.
F_Next ==
    /\ fetch.pc = "done"
    /\ fetch' = FetchIdle
    /\ UNCHANGED <<v, vPrev, tg, HandlerVarsButFetch>>

InitFetch ==
    /\ InitIdle
    /\ runtime = "core"
    /\ config = DefaultConfig
    /\ activeSessions = EmptyMap
    /\ pendingReplies = EmptyMap
    /\ pendingOrder = <<>>

NextFetch ==
    \/ \E op \in ApiCalls : F_Call(op)
    \/ F_Timeout
    \/ \E status \in Statuses : F_Response(status)
    \/ F_Reject
    \/ F_ErrorBody
    \/ \E json \in JsonResults : F_Json(json)
    \/ F_Next

SpecFetch == InitFetch /\ [][NextFetch]_vars

----------------------------------------------------------------------------
(* The notification text: sendTelegramNotification and escapeMarkdown      *)

\* Longest visitor message the model enumerates.
MaxTextLen == 2

\* A plausible slip: the dot is missing from the class.
SpecialChars_NoDot ==
    {"_", "*", "[", "]", "(", ")", "~", "backtick", ">", "#", "+", "-", "=", "|", "{", "}", "!",
     "\\"}

\* The characters of the class in the regular expression of escapeMarkdown; the
\* grave accent is written "backtick".
SpecialChars ==
    {"_", "*", "[", "]", "(", ")", "~", "backtick", ">", "#", "+", "-", "=", "|", "{", "}", ".", "!",
     "\\"}

\* Characters of visitor texts: the special ones, a letter, a digit and a space.
TextChars == SpecialChars \cup {"a", "1", " "}

\* String.prototype.replace with "\\$&": the match, preceded by a backslash.
EscapeChar(c, specials) == IF c \in specials THEN <<"\\", c>> ELSE <<c>>

RECURSIVE Replace(_, _)
Replace(text, specials) ==
    IF text = <<>> THEN <<>>
    ELSE EscapeChar(Head(text), specials) \o Replace(Tail(text), specials)

\* escapeMarkdown
escapeMarkdown(text) == Replace(text, SpecialChars)

\* Lines 21-24: the template literal, as its five parts.
NotificationText(pendingId, visitorName, visitorMessage) ==
    <<<<"header", "\\", "[">> \o pendingId \o <<"\\", "]">>,
      escapeMarkdown(visitorName),
      <<"separator">>,
      escapeMarkdown(visitorMessage),
      <<"footer">>>>

\* Visitor names: the default, a letter, and names made of a special character.
VisitorNames == {<<>>, <<"a">>, <<"_">>, <<"\\">>, <<"a", ".">>}

\* Lines 19-24: sendTelegramNotification builds its text.
TG_Build(pendingId, visitorName, visitorMessage) ==
    /\ tg.pc = "idle"
    /\ tg' = [pc |-> "built", pendingId |-> pendingId, visitorName |-> visitorName,
              visitorMessage |-> visitorMessage,
              text |-> NotificationText(pendingId, visitorName, visitorMessage)]
    /\ UNCHANGED <<v, vPrev, fetch, HandlerVarsButFetch>>

\* The notification was sent; the next one can be built.
TG_Next ==
    /\ tg.pc = "built"
    /\ tg' = TgIdle
    /\ UNCHANGED <<v, vPrev, fetch, HandlerVarsButFetch>>

InitText ==
    /\ InitIdle
    /\ runtime = "core"
    /\ config = DefaultConfig
    /\ activeSessions = EmptyMap
    /\ pendingReplies = EmptyMap
    /\ pendingOrder = <<>>

NextText ==
    \/ /\ tg.pc = "idle"
       /\ \E id \in GeneratedIds, name \in VisitorNames,
             message \in SeqsUpTo(TextChars, MaxTextLen) :
             TG_Build(id, name, message)
    \/ TG_Next

SpecText == InitText /\ [][NextText]_vars

----------------------------------------------------------------------------
(* Two requests in flight: the handler is async and the host calls it per   *)
(* request, so the invocations interleave at their awaits                  *)

\* Configurations under which every external call of the handler is made.
PairConfigs ==
    {c \in Configs : c.historyLimit = 10 /\ c.resolveOnReply /\ c.telegramConfigured}

\* The requests sent: a visitor message, an ignored event and a bad secret on the
\* webhook path, and a request of another method.
PairInputs ==
    {Input("POST", DEFAULT_WEBHOOK_PATH, ConfiguredSecret, DefaultBody),
     Input("POST", DEFAULT_WEBHOOK_PATH, ConfiguredSecret, Body("message:received", TRUE, DefaultData)),
     Input("POST", DEFAULT_WEBHOOK_PATH, Some(<<"a", "a">>), DefaultBody),
     Input("GET", DEFAULT_WEBHOOK_PATH, ConfiguredSecret, DefaultBody)}

\* The host calls the handler for request r.
RequestArrives(r) == \E input \in PairInputs : H_Request(r, input)

\* The request stream of r has ended (or failed): parseJsonBody settles.
BodyArrives(r) ==
    \E routeOk \in BOOLEAN, id \in GeneratedIds, evtOk \in BOOLEAN : H_Body(r, routeOk, id, evtOk)

\* The external calls of request r settle.
HistoryReturns(r) ==
    \E ok \in BOOLEAN, routeOk \in BOOLEAN, id \in GeneratedIds, evtOk \in BOOLEAN :
       H_HistoryReturn(r, ok, routeOk, id, evtOk)

TelegramReturns(r) == \E result \in TelegramResults : H_TelegramReturn(r, result)

SendReturns(r) == \E ok \in BOOLEAN : D_SendReturn(r, ok)

ResolveReturns(r) == \E ok \in BOOLEAN : D_ResolveReturn(r, ok)

DispatchReturns(r) == \E threw \in BOOLEAN : D_Finish(r, threw)

\* The payload the dispatcher hands to deliver(): a text that is sent.
PairDeliverTexts == {Some(<<" ", "h", "i", " ">>)}

\* The dispatcher of request r hands a payload to deliver().
DispatcherDelivers(r) == \E text \in PairDeliverTexts : D_Deliver(r, text)

InitPair ==
    /\ InitIdle
    /\ runtime = "core"
    /\ config \in PairConfigs
    /\ activeSessions = EmptyMap
    /\ pendingReplies = EmptyMap
    /\ pendingOrder = <<>>

NextPair ==
    \E r \in Reqs :
       \/ RequestArrives(r)
       \/ BodyArrives(r)
       \/ HistoryReturns(r)
       \/ TelegramReturns(r)
       \/ DispatcherDelivers(r)
       \/ SendReturns(r)
       \/ ResolveReturns(r)
       \/ DispatchReturns(r)

\* The event loop runs the continuation of a request whose body has arrived, whatever
\* the other request is waiting for.
SpecPair == InitPair /\ [][NextPair]_vars /\ \A r \in Reqs : WF_vars(BodyArrives(r))

----------------------------------------------------------------------------
(* A decision event looked up while a notification is in flight            *)

\* Approval mode with the notification channel configured.
ApprovalConfig ==
    [DefaultConfig EXCEPT !.autoReply = FALSE, !.approvalMode = TRUE, !.telegramConfigured = TRUE]

\* Telegram delivers the prompt of request r.
PromptDelivered(r) == \E m \in TelegramMessageIds : H_TelegramDelivers(r, m)

\* The decision handler looks a replied-to message up.
DecisionLookup == \E m \in TelegramMessageIds : S_Find(m)

InitDecision ==
    /\ InitIdle
    /\ runtime = "core"
    /\ config = ApprovalConfig
    /\ activeSessions = EmptyMap
    /\ pendingReplies = EmptyMap
    /\ pendingOrder = <<>>

NextDecision ==
    \/ Tick
    \/ DecisionLookup
    \/ \E r \in FirstReq :
          \/ RequestArrives(r)
          \/ BodyArrives(r)
          \/ PromptDelivered(r)
          \/ TelegramReturns(r)

SpecDecision == InitDecision /\ [][NextDecision]_vars

----------------------------------------------------------------------------
(* Several accounts: createCrispHttpHandler                                *)

\* Longest list of accounts the model configures.
MaxAccounts == 2

\* Webhook paths of accounts: the default one and one it is a prefix of.
AccountPaths == {DEFAULT_WEBHOOK_PATH, <<"/", "w", "x">>}

\* Webhook secrets of accounts.
AccountSecrets == {ConfiguredSecret, Some(<<"b", "b">>)}

\* resolveCrispAccount: the accounts a configuration file can give.  configured is
\* false when one of websiteId, apiKeyId and apiKeySecret is missing.
ResolvedAccounts ==
    [enabled : BOOLEAN, configured : BOOLEAN,
     config : {[DefaultConfig EXCEPT !.webhookPath = p, !.webhookSecret = k, !.autoReply = FALSE] :
                  p \in AccountPaths, k \in AccountSecrets}]

\* The lists of accounts listCrispAccountIds and resolveCrispAccount give.
AccountLists ==
    UNION {[1..n -> ResolvedAccounts] : n \in 1..MaxAccounts}

\* Lines 320-326: whether the loop hands the request to account k.
Routable(acc, pathname) ==
    /\ acc.configured
    /\ acc.enabled
    /\ StartsWith(pathname, resolveWebhookPath(acc.config))

\* The requests sent to the HTTP handler.
AccountInputs ==
    {Input("POST", p, k, DefaultBody) :
        p \in AccountPaths \cup {<<"/", "o">>}, k \in AccountSecrets \cup {None}}
    \cup {Input("GET", DEFAULT_WEBHOOK_PATH, ConfiguredSecret, DefaultBody)}

\* Lines 316-333: the handler returned by createCrispHttpHandler.  The first account
\* in the list that is configured, enabled and whose webhook path the request path
\* starts with gets the request: handleCrispWebhookRequest is called with its
\* configuration, and what it returns is returned.  Line 327 passes four arguments, so
\* the accountId parameter of handleCrispWebhookRequest is undefined.
CrispHttpHandler(r, input) ==
    /\ runtime # UNDEF
    /\ req[r].pc = "idle"
    /\ LET rq == [req[r] EXCEPT !.input = input]
           hits == {k \in 1..Len(accounts) : Routable(accounts[k], input.pathname)}
       IN  IF hits = {}
           THEN /\ req' = [req EXCEPT ![r] = [rq EXCEPT !.pc = "done", !.ret = "false"]]
                /\ UNCHANGED config
           ELSE LET first == CHOOSE k \in hits : \A j \in hits : k <= j
                IN  /\ config' = accounts[first].config
                    /\ req' = [req EXCEPT ![r] =
                          Admit([rq EXCEPT !.accountId = UNDEF], accounts[first].config)]
    /\ UNCHANGED <<v, vPrev, fetch, tg, accounts, now, runtime, activeSessions, bgSessions,
                   pendingReplies, pendingOrder, att, trk, obs>>

InitAccounts ==
    /\ InitCalls
    /\ accounts \in AccountLists
    /\ runtime = "core"
    /\ config = DefaultConfig
    /\ activeSessions = EmptyMap
    /\ pendingReplies = EmptyMap
    /\ pendingOrder = <<>>

NextAccounts ==
    \E r \in FirstReq :
       \/ \E input \in AccountInputs : CrispHttpHandler(r, input)
       \/ BodyArrives(r)

SpecAccounts == InitAccounts /\ [][NextAccounts]_vars

----------------------------------------------------------------------------
(* Properties                                                              *)

\* The indices of a log at which a call of the given kind is recorded.
Calls(log, op) == {i \in 1..Len(log) : log[i].op = op}

\* A POST to the account's webhook path.
OnWebhookPath(input) ==
    /\ input.method = "POST"
    /\ StartsWith(input.pathname, resolveWebhookPath(config))

\* The `secret` parameter is missing, empty, or not the configured secret.
WrongSecret(input) ==
    \/ ~input.secret.has
    \/ input.secret.val = <<>>
    \/ input.secret.val # config.webhookSecret.val

Authenticated(input) == OnWebhookPath(input) /\ ~WrongSecret(input)

\* A visitor message the handler accepts, of type text or file.
VisitorMessage(input) ==
    /\ input.body.kind = "object"
    /\ input.body.event = "message:send"
    /\ input.body.hasData
    /\ input.body.data.from = "user"
    /\ input.body.data.type \in {"text", "file"}

\* C1: a POST to the webhook path with a missing, empty or wrong secret is answered
\* 401 {"error":"Invalid secret"} in the step that receives it, with no call made and
\* the session map and the pending-reply store unchanged, and nothing is done for the
\* request after that answer.
C1_InvalidSecretAnswers401 ==
    [][\A r \in Reqs :
         /\ (req[r].pc = "idle" /\ req'[r].pc # "idle"
                /\ OnWebhookPath(req'[r].input) /\ WrongSecret(req'[r].input))
            => /\ req'[r].pc = "done"
               /\ req'[r].status = 401
               /\ req'[r].respBody = "{error:Invalid secret}"
               /\ req'[r].ret = "true"
               /\ req'[r].log = <<>>
               /\ req'[r].ticket = <<>>
               /\ UNCHANGED <<activeSessions, bgSessions, pendingReplies>>
         /\ (req[r].status = 401) => (req'[r] = req[r])]_vars

\* C1 witness: a request with a wrong secret of the right length has been answered 401
\* while a session and a ticket of an earlier message are in the stores.
C1_Witness ==
    \E r \in Reqs :
        /\ req[r].pc = "done"
        /\ req[r].status = 401
        /\ req[r].input.secret = Some(<<"b", "b">>)
        /\ "s1" \in DOMAIN activeSessions
        /\ pendingReplies # EmptyMap

\* C2 (as claimed): for each ticket, at most one resolution attempt has invoked
\* sendMessage.
C2_AtMostOneReplyPerTicket ==
    \A id \in GeneratedIds :
        Cardinality({a \in AttemptIds :
                        \E i \in Calls(att[a].log, "sendMessage") : att[a].log[i].ticket = id}) <= 1

\* C3: in approval mode no request ever records a sendMessage, an
\* updateConversationState, a call of the AI dispatcher or a deliver callback.
C3_ApprovalNeverReplies ==
    \A r \in Reqs :
        config.approvalMode =>
            /\ \A i \in 1..Len(req[r].log) :
                  req[r].log[i].op \notin {"sendMessage", "updateConversationState", "dispatch",
                                           "deliver", "deliverNoText"}
            /\ req[r].pc \notin {"dispatch", "deliverSend", "deliverResolve"}

\* C3 witness: with approval mode and auto-reply both enabled, a visitor message has
\* been handled to the end and its ticket stored.
C3_Witness ==
    \E r \in Reqs :
        /\ config.approvalMode /\ config.autoReply
        /\ req[r].pc = "done" /\ req[r].status = 200
        /\ VisitorMessage(req[r].input)
        /\ req[r].ticket \in DOMAIN pendingReplies

\* The text the claim expects in the ticket: the content as sent, the placeholder for
\* a file.
ClaimedVisitorMessage(data) ==
    IF data.type = "file" THEN FileSentinel
    ELSE IF data.content.has THEN data.content.val ELSE <<>>

\* C4 (as claimed): in approval mode every handled visitor message of type text or
\* file has stored exactly one ticket, with an empty proposedReply, the visitor's text
\* and the conversation, site and account of the request.
C4_ApprovalStoresOneTicket ==
    \A r \in Reqs :
        (config.approvalMode /\ req[r].pc = "done" /\ Authenticated(req[r].input)
            /\ VisitorMessage(req[r].input))
        => /\ Cardinality(Calls(req[r].log, "storePendingReply")) = 1
           /\ req[r].ticket \in DOMAIN pendingReplies
           /\ LET ticket == pendingReplies[req[r].ticket]
                  data == req[r].input.body.data
              IN  /\ ticket.proposedReply = <<>>
                  /\ ticket.visitorMessage = ClaimedVisitorMessage(data)
                  /\ ticket.crispSessionId = data.session_id
                  /\ ticket.crispWebsiteId = data.website_id
                  /\ ticket.accountId = req[r].accountId

\* C5 (as claimed): an authenticated request whose body is a JSON object with an event
\* and data is answered 200 {"ok":true}, whatever failed downstream.
C5_DownstreamFailureKeeps200 ==
    \A r \in Reqs :
        (req[r].pc = "done" /\ Authenticated(req[r].input)
            /\ req[r].input.body.kind = "object"
            /\ req[r].input.body.event # UNDEF
            /\ req[r].input.body.hasData)
        => (req[r].status = 200 /\ req[r].respBody = "{ok:true}")

\* The events whose handling reads a field of `data`.
DataReadingEvents == {"message:send", "session:set_state", "session:set_email"}

\* C6 (as claimed): an authenticated request whose body is not valid JSON, or lacks
\* event or data, is answered 500 with an error body.
C6_MalformedAnswers500_AsClaimed ==
    \A r \in Reqs :
        (req[r].pc = "done" /\ Authenticated(req[r].input)
            /\ (\/ req[r].input.body.kind # "object"
                \/ req[r].input.body.event = UNDEF
                \/ ~req[r].input.body.hasData))
        => (req[r].status = 500 /\ req[r].respBody = "{error:Internal error}")

\* C6 (amended): an authenticated request is answered 500 {"error":"Internal error"}
\* when its body is not valid JSON, is the JSON value null, or lacks data while its
\* event is message:send, session:set_state or session:set_email; a JSON object that
\* lacks event, or lacks data under any other event, is answered 200 {"ok":true}.
C6_MalformedAnswers ==
    \A r \in Reqs :
        (req[r].pc = "done" /\ Authenticated(req[r].input))
        => LET body == req[r].input.body
           IN  /\ (\/ body.kind \in {"invalid", "null"}
                   \/ (~body.hasData /\ body.event \in DataReadingEvents))
                  => (req[r].status = 500 /\ req[r].respBody = "{error:Internal error}")
               /\ (body.kind = "object" /\ body.event \notin DataReadingEvents
                     /\ (body.event = UNDEF \/ ~body.hasData))
                  => (req[r].status = 200 /\ req[r].respBody = "{ok:true}")

\* C6 witness: a session:set_state event without data has been answered 500.
C6_Witness ==
    \E r \in Reqs :
        /\ req[r].pc = "done" /\ Authenticated(req[r].input)
        /\ req[r].input.body.kind = "object"
        /\ req[r].input.body.event = "session:set_state"
        /\ ~req[r].input.body.hasData
        /\ req[r].status = 500

\* C7: a completed validateWebhookSecret call has returned true exactly when the
\* parameter is present and non-empty, the configured secret is non-empty, and the two
\* are the same sequence of characters; the function used by the handler agrees.
C7_SecretAcceptedIffEqual ==
    v.pc = "done" =>
        /\ v.ret = (/\ v.provided.has /\ v.provided.val # <<>>
                    /\ v.expected.has /\ v.expected.val # <<>>
                    /\ Len(v.provided.val) = Len(v.expected.val)
                    /\ \A k \in 1..Len(v.provided.val) : v.provided.val[k] = v.expected.val[k])
        /\ validateWebhookSecret(v.provided, v.expected) = v.ret

\* C7 witness: two secrets of equal length that agree on the first character and
\* differ later have been compared to the end and rejected.
C7_Witness ==
    /\ v.pc = "done"
    /\ ~v.ret
    /\ RanLoop(v)
    /\ Len(v.provided.val) >= 2
    /\ FirstDiff(v.provided.val, v.expected.val) = 2

\* C8: two consecutive calls that both ran the comparison loop on secrets of the same
\* length took the same sequence of steps, wherever (and whether) the secrets differ.
C8_SameStepsWhateverTheDifference ==
    (v.pc = "done" /\ RanLoop(v) /\ vPrev.seen /\ vPrev.len = Len(v.provided.val))
    => v.trace = vPrev.trace

\* C8 witness: two completed calls on secrets of the same length whose first
\* differences are at different positions.
C8_Witness ==
    /\ v.pc = "done" /\ RanLoop(v)
    /\ vPrev.seen /\ vPrev.len = Len(v.provided.val)
    /\ vPrev.firstDiff = 1
    /\ FirstDiff(v.provided.val, v.expected.val) = 2

\* n spaces.
Spaces(n) == [k \in 1..n |-> " "]

\* core is what is left of raw once the spaces at both ends are taken away.
IsTrimOf(core, raw) ==
    /\ core # <<>> => (Head(core) # " " /\ core[Len(core)] # " ")
    /\ \E a \in 0..Len(raw), b \in 0..Len(raw) : raw = Spaces(a) \o core \o Spaces(b)

\* C9: with approval mode off, every deliver call whose text has a character other
\* than a space is followed at once by one sendMessage of that text without its
\* surrounding spaces, to the conversation and site of the request; a deliver call
\* with no text or only spaces is followed by no sendMessage; no sendMessage is made
\* otherwise; so a dispatch that delivered one text made exactly one sendMessage.
C9_AutoReplySendsEachText ==
    \A r \in Reqs :
        ~config.approvalMode =>
            LET log == req[r].log
                data == req[r].input.body.data
                hasText(i) == log[i].op = "deliver" /\ ~IsTrimOf(<<>>, log[i].text)
            IN  /\ \A i \in 1..Len(log) :
                      /\ hasText(i) =>
                            /\ i < Len(log)
                            /\ log[i + 1].op = "sendMessage"
                            /\ IsTrimOf(log[i + 1].text, log[i].text)
                            /\ log[i + 1].sid = data.session_id
                            /\ log[i + 1].wid = data.website_id
                      /\ (log[i].op \in {"deliver", "deliverNoText"} /\ ~hasText(i) /\ i < Len(log))
                            => log[i + 1].op # "sendMessage"
                      /\ log[i].op = "sendMessage" => (i > 1 /\ hasText(i - 1))
                /\ (req[r].pc = "done" /\ Cardinality({i \in 1..Len(log) : hasText(i)}) = 1)
                      => Cardinality(Calls(log, "sendMessage")) = 1

\* C9 witness: a dispatch has delivered a text of spaces only and the text " hi ",
\* and the request is answered with one sendMessage of "hi" made.
C9_Witness ==
    \E r \in Reqs :
        LET log == req[r].log
        IN  /\ ~config.approvalMode
            /\ req[r].pc = "done"
            /\ \E i \in Calls(log, "deliver") : log[i].text = <<" ">>
            /\ \E i \in Calls(log, "deliver") : log[i].text = <<" ", "h", "i", " ">>
            /\ \E i \in Calls(log, "sendMessage") : log[i].text = HiText
            /\ Cardinality(Calls(log, "sendMessage")) = 1

\* C10: the session returned for the k-th accepted message since the conversation's
\* session was created has messageCount k and isNew exactly when k is 1, and every
\* stored session has messageCount >= 1 and isNew exactly when messageCount is 1.
C10_CountsEveryMessage ==
    /\ trk.called => (trk.ret.messageCount = trk.k /\ trk.ret.isNew = (trk.k = 1))
    /\ \A s \in DOMAIN activeSessions :
          /\ activeSessions[s].messageCount >= 1
          /\ activeSessions[s].isNew = (activeSessions[s].messageCount = 1)
          /\ activeSessions[s].messageCount = trk.accepted[s]

\* C10 witness: the second message of a conversation arrived exactly 24 hours after
\* the first, in a map of more than 100 sessions, and was counted as the second.
C10_Witness ==
    /\ trk.called
    /\ trk.k = 2
    /\ trk.ret.messageCount = 2
    /\ trk.ret.lastMessageAt - trk.ret.startedAt = SESSION_TTL
    /\ Cardinality(DOMAIN activeSessions) + bgSessions > SESSION_SWEEP_THRESHOLD

\* An input the handler ignores: a message:send that carries data and comes from
\* someone other than the visitor or has a type that is neither text nor file, a
\* message:received or unrecognized event, or a session:set_state event that carries
\* data.
IgnoredBody(body) ==
    /\ body.kind = "object"
    /\ \/ /\ body.event = "message:send" /\ body.hasData
          /\ \/ body.data.from # "user"
             \/ body.data.type \notin {UNDEF, "text", "file"}
       \/ body.event \in {"message:received", "other:event"}
       \/ body.event = "session:set_state" /\ body.hasData

\* C11: the step that handles an ignored input (a message:send not from the visitor or
\* of a type other than text and file, a message:received, session:set_state or
\* unrecognized event) leaves the session map and the pending-reply store unchanged,
\* makes no routing, dispatch, notification or provider call, and answers
\* 200 {"ok":true}; nothing is done for the request after that.
C11_IgnoredInputsChangeNothing ==
    [][\A r \in Reqs :
         (req[r].pc = "parsing" /\ req'[r] # req[r] /\ IgnoredBody(req[r].input.body))
         => /\ req'[r].pc = "done"
            /\ req'[r].status = 200
            /\ req'[r].respBody = "{ok:true}"
            /\ req'[r].log = <<>>
            /\ req'[r].ticket = <<>>
            /\ UNCHANGED <<activeSessions, bgSessions, pendingReplies>>]_vars

\* C11 witness: an audio message of the visitor has been answered 200 while a session
\* and a ticket of an earlier message are in the stores.
C11_Witness ==
    \E r \in Reqs :
        /\ req[r].pc = "done" /\ req[r].status = 200
        /\ Authenticated(req[r].input)
        /\ req[r].input.body.event = "message:send"
        /\ req[r].input.body.data.type = "audio"
        /\ req[r].log = <<>>
        /\ "s1" \in DOMAIN activeSessions
        /\ pendingReplies # EmptyMap

\* C18: when the notification was not delivered (the adapter returned ok:false or no
\* message ID, or threw), the request is answered 200 {"ok":true} and its ticket is in
\* the store without correlation fields, and getPendingReply returns it as long as it
\* is no older than the TTL.
C18_NotificationFailureKeepsTicket ==
    \A r \in Reqs :
        (req[r].pc = "done"
            /\ \E i \in 1..Len(req[r].log) : req[r].log[i].op \in {"telegramFailed", "telegramThrew"})
        => /\ req[r].status = 200 /\ req[r].respBody = "{ok:true}"
           /\ req[r].ticket \in DOMAIN pendingReplies
           /\ pendingReplies[req[r].ticket].telegramMessageId = UNDEF
           /\ pendingReplies[req[r].ticket].telegramChatId = UNDEF
           /\ (now - pendingReplies[req[r].ticket].createdAt <= PENDING_REPLY_TTL)
                 => getPendingReply(pendingReplies, now, req[r].ticket).found

\* C18 witness: the notification call threw, the request is answered and the ticket
\* is still retrievable an hour later.
C18_Witness ==
    \E r \in Reqs :
        /\ req[r].pc = "done" /\ req[r].status = 200
        /\ Calls(req[r].log, "telegramThrew") # {}
        /\ req[r].ticket \in DOMAIN pendingReplies
        /\ now - pendingReplies[req[r].ticket].createdAt = PENDING_REPLY_TTL
        /\ getPendingReply(pendingReplies, now, req[r].ticket).found

\* A step of the store specification other than the passing of an hour: a call.
IsCall == now' = now

\* The ticket is older than the TTL at time t.
OlderThanTTL(ticket, t) == t - ticket.createdAt > PENDING_REPLY_TTL

\* The elements of a sequence.
Range(seq) == {seq[i] : i \in 1..Len(seq)}

\* One letter without its case.
FoldCase(c) == IF c \in {"a", "A"} THEN "a" ELSE IF c \in {"b", "B"} THEN "b" ELSE c

\* x and y are the same string up to letter case.
SameUpToCase(x, y) ==
    /\ Len(x) = Len(y)
    /\ \A k \in 1..Len(x) : FoldCase(x[k]) = FoldCase(y[k])

\* C12: getPendingReply on the ID of a stored ticket older than the 1-hour TTL returns
\* absent and removes the record, and on a stored ticket no older than the TTL returns
\* that ticket and leaves it as it is; getAllPendingReplies returns exactly the stored
\* tickets that are no older than the TTL.
C12_ExpiredTicketNeverReturned ==
    [][IsCall =>
         /\ (obs'.op = "get" /\ obs'.id \in DOMAIN pendingReplies)
            => IF OlderThanTTL(pendingReplies[obs'.id], now)
               THEN ~obs'.found /\ obs'.id \notin DOMAIN pendingReplies'
               ELSE /\ obs'.found /\ obs'.key = obs'.id
                    /\ obs'.id \in DOMAIN pendingReplies'
                    /\ pendingReplies'[obs'.id] = pendingReplies[obs'.id]
         /\ obs'.op = "getAll"
            => /\ Range(obs'.listed)
                    = {k \in DOMAIN pendingReplies : ~OlderThanTTL(pendingReplies[k], now)}
               /\ pendingReplies' = pendingReplies]_vars

\* C12 witness: getPendingReply has found a ticket two hours old, returned absent and
\* removed it, while another ticket stays in the store.
C12_Witness ==
    /\ obs.op = "get" /\ obs.evicted /\ ~obs.found
    /\ obs.id \notin DOMAIN pendingReplies
    /\ pendingReplies # EmptyMap

\* C13 (as claimed): right after updatePendingReplyTelegram(id, m, c) on a stored ticket
\* no older than the TTL, findPendingReplyByTelegramMessage(m) returns that ticket; and
\* for a message ID that no stored ticket carries it returns absent.
C13_FindReturnsTheAttachedTicket ==
    [][IsCall =>
         /\ (obs'.op = "update" /\ obs'.id \in DOMAIN pendingReplies
                /\ ~OlderThanTTL(pendingReplies[obs'.id], now))
            => findPendingReplyByTelegramMessage(pendingReplies', pendingOrder', obs'.m)
                  = [found |-> TRUE, key |-> obs'.id]
         /\ (obs'.op = "find"
                /\ \A k \in DOMAIN pendingReplies : pendingReplies[k].telegramMessageId # obs'.m)
            => ~obs'.found]_vars

\* C14 (as claimed): findPendingReplyByTelegramMessage never returns a ticket created
\* more than one hour ago.
C14_FindReturnsLiveTicketsOnly ==
    [][(IsCall /\ obs'.op = "find" /\ obs'.found)
         => ~OlderThanTTL(pendingReplies[obs'.key], now)]_vars

\* C15 (as claimed): the ID of the ticket storePendingReply returns is the ID of no
\* ticket already in the store, and every ticket that was in the store and is no older
\* than the TTL is still there, unchanged.
C15_TicketIdsAreFresh ==
    [][(IsCall /\ obs'.op = "store")
         => /\ obs'.key \notin DOMAIN pendingReplies
            /\ \A k \in DOMAIN pendingReplies :
                  ~OlderThanTTL(pendingReplies[k], now)
                  => (k \in DOMAIN pendingReplies' /\ pendingReplies'[k] = pendingReplies[k])]_vars

\* C16: for every stored ticket x no older than the TTL and every ID y equal to x up to
\* letter case, getPendingReply(y) returns x, removePendingReply(y) removes x and
\* returns true, and updatePendingReplyTelegram(y, m, c) sets the correlation fields of
\* x to m and c.
C16_LookupIgnoresCase ==
    [][IsCall =>
         \A x \in DOMAIN pendingReplies :
            (SameUpToCase(x, obs'.id) /\ ~OlderThanTTL(pendingReplies[x], now))
            => /\ obs'.op = "get" => (obs'.found /\ obs'.key = x)
               /\ obs'.op = "remove" => (obs'.removed /\ x \notin DOMAIN pendingReplies')
               /\ obs'.op = "update"
                  => /\ x \in DOMAIN pendingReplies'
                     /\ pendingReplies'[x] = [pendingReplies[x] EXCEPT
                                                 !.telegramMessageId = obs'.m,
                                                 !.telegramChatId = obs'.c]]_vars

\* C16 witness: removePendingReply was called with the lower-case form of a stored
\* ticket's ID, returned true, and the ticket is gone.
C16_Witness ==
    /\ obs.op = "remove" /\ obs.removed
    /\ obs.id = <<"a", "1">>
    /\ <<"A", "1">> \in obs.issued
    /\ <<"A", "1">> \notin DOMAIN pendingReplies

\* C17: updatePendingReplyTelegram on an ID that no stored ticket has, up to letter
\* case, leaves the store as it was: no record is created and no ticket is changed.
C17_LateAttachChangesNothing ==
    [][(IsCall /\ obs'.op = "update"
           /\ \A x \in DOMAIN pendingReplies : ~SameUpToCase(x, obs'.id))
         => (pendingReplies' = pendingReplies /\ pendingOrder' = pendingOrder)]_vars

\* C17 witness: updatePendingReplyTelegram was called for a ticket that had been
\* stored and was gone by then, while another ticket is in the store.
C17_Witness ==
    /\ obs.op = "update"
    /\ \E x \in obs.issued : SameUpToCase(x, obs.id) /\ x \notin DOMAIN pendingReplies
    /\ \A x \in DOMAIN pendingReplies : ~SameUpToCase(x, obs.id)
    /\ pendingReplies # EmptyMap

\* C19: the dispatch of a session:set_email event that carries an email sets the
\* visitorEmail of the tracked session of that conversation to it and changes no other
\* field; when no session of that conversation is tracked the map is unchanged; no
\* session is ever created or dropped; and dispatching the event that was dispatched
\* just before changes nothing.
C19_SetEmailSetsOnlyTheEmail ==
    [][(trk' = trk /\ now' = now /\ obs'.op = "set_email")
         => /\ (obs'.sid \in DOMAIN activeSessions /\ obs'.email \notin {UNDEF, ""})
               => activeSessions' =
                     [activeSessions EXCEPT ![obs'.sid].visitorEmail = obs'.email]
            /\ obs'.sid \notin DOMAIN activeSessions => activeSessions' = activeSessions
            /\ DOMAIN activeSessions' = DOMAIN activeSessions
            /\ bgSessions' = bgSessions
            /\ obs'.repeated => activeSessions' = activeSessions]_vars

\* C19 witness: the same event was dispatched twice in a row for a conversation that
\* has sent two messages; its session holds the event's email and no session exists
\* for the other conversation.
C19_Witness ==
    /\ obs.op = "set_email" /\ obs.repeated
    /\ obs.sid \in DOMAIN activeSessions
    /\ obs.email = "e1"
    /\ activeSessions[obs.sid].visitorEmail = "e1"
    /\ activeSessions[obs.sid].messageCount = 2
    /\ "s2" \notin DOMAIN activeSessions

\* C20 (as claimed): a completed sendCrispReply returned ok:true exactly when the
\* provider accepted the reply message, so ok:false means that no message reached the
\* visitor, also when resolveOnReply is set and the state update failed.
C20_ReplyResultTellsDelivery ==
    \A a \in AttemptIds :
        (att[a].pc = "done" /\ att[a].result \in {"ok", "failed"})
        => ((att[a].result = "ok") <=> (Calls(att[a].log, "sendMessageOk") # {}))

\* The emissions of the fallback system event recorded in a log, failed ones included.
FallbackEvents(log) == Calls(log, "enqueueSystemEvent") \cup Calls(log, "enqueueSystemEventThrew")

\* C23: a request that stored a ticket has taken exactly one notification path: with
\* bot token and approval chat configured it called the notifier once, for that ticket,
\* and never emitted the fallback event, whatever the notifier answered; otherwise it
\* emitted the fallback event once, carrying the ticket ID, and never called the
\* notifier.
C23_OneNotificationPath ==
    \A r \in Reqs :
        LET log == req[r].log
            notified == Calls(log, "sendTelegramNotification")
        IN  Calls(log, "storePendingReply") # {}
            => IF config.telegramConfigured
               THEN /\ Cardinality(notified) = 1
                    /\ \A i \in notified : log[i].ticket = req[r].ticket
                    /\ FallbackEvents(log) = {}
               ELSE /\ Cardinality(FallbackEvents(log)) = 1
                    /\ \A i \in FallbackEvents(log) : log[i].ticket = req[r].ticket
                    /\ notified = {}

\* C23 witness: the configured notifier was called and failed, the request is
\* answered, and no fallback event was emitted.
C23_Witness ==
    \E r \in Reqs :
        /\ req[r].pc = "done"
        /\ config.telegramConfigured
        /\ Calls(req[r].log, "telegramFailed") # {}
        /\ Cardinality(Calls(req[r].log, "sendTelegramNotification")) = 1
        /\ FallbackEvents(req[r].log) = {}

C29_AnswerAfterHandling ==
    \A r \in Reqs :
        LET log == req[r].log
        IN  /\ req[r].pc \in Suspended => (req[r].status = 0 /\ req[r].respBody = "")
            /\ (req[r].status # 0 /\ Calls(log, "dispatch") # {})
               => log[Len(log)].op \in {"dispatchReturned", "dispatchThrew"}
            /\ (req[r].status # 0 /\ Calls(log, "sendTelegramNotification") # {})
               => /\ log[Len(log)].op \in {"updatePendingReplyTelegram", "telegramFailed",
                                            "telegramThrew"}
                  /\ log[Len(log)].op = "updatePendingReplyTelegram"
                     => pendingReplies[req[r].ticket].telegramMessageId \in TelegramMessageIds

\* C29 witness: a request was answered after its dispatcher had delivered a reply
\* and returned.
C29_Witness ==
    \E r \in Reqs :
        /\ req[r].status = 200
        /\ Calls(req[r].log, "sendMessage") # {}
        /\ req[r].log[Len(req[r].log)].op = "dispatchReturned"

\* A step of the session specification that is a trackSession call.
IsTrack == trk' # trk

\* The session was last active more than 24 hours before t.
IdleBeyondTTL(lastMessageAt, t) == t - lastMessageAt > SESSION_TTL

\* C25 (as claimed): a trackSession call that leaves more than 100 sessions in the map
\* leaves none whose last activity is more than 24 hours old.
C25_LargeMapIsSwept ==
    [][(IsTrack /\ Cardinality(DOMAIN activeSessions') + bgSessions' > SESSION_SWEEP_THRESHOLD)
         => /\ \A s \in DOMAIN activeSessions' :
                  ~IdleBeyondTTL(activeSessions'[s].lastMessageAt, now)
            /\ bgSessions' > 0 => ~IdleBeyondTTL(0, now)]_vars

\* C26: a trackSession call removes no session last active within the last 24 hours
\* and never the session it created or updated; it removes a session only when that
\* session has been idle for more than 24 hours and the map, the new session included,
\* holds more than 100; so the count of a conversation whose messages are never more
\* than 24 hours apart is never reset.
C26_ActiveSessionsAreKept ==
    [][IsTrack =>
         LET sid == trk'.sid
             size == Cardinality(DOMAIN activeSessions \cup {sid}) + bgSessions
         IN  /\ sid \in DOMAIN activeSessions'
             /\ \A s \in DOMAIN activeSessions \ {sid} :
                   IF IdleBeyondTTL(activeSessions[s].lastMessageAt, now)
                        /\ size > SESSION_SWEEP_THRESHOLD /\ sid \notin DOMAIN activeSessions
                   THEN TRUE
                   ELSE s \in DOMAIN activeSessions' /\ activeSessions'[s] = activeSessions[s]
             /\ bgSessions' \in {0, bgSessions}
             /\ bgSessions' # bgSessions
                   => (IdleBeyondTTL(0, now) /\ size > SESSION_SWEEP_THRESHOLD)
             /\ (sid \in DOMAIN activeSessions
                    /\ ~IdleBeyondTTL(activeSessions[sid].lastMessageAt, now))
                   => activeSessions'[sid].messageCount = activeSessions[sid].messageCount + 1]_vars

\* C26 witness: a call created a session in a map of more than 100, swept the sessions
\* idle for more than 24 hours, and kept the session of the other conversation, which
\* was active within the last 24 hours.
C26_Witness ==
    /\ trk.called /\ trk.k = 1
    /\ trk.evicted >= SESSION_SWEEP_THRESHOLD - 1
    /\ \E s \in DOMAIN activeSessions \ {trk.sid} : activeSessions[s].lastMessageAt < now

\* C27: after a storePendingReply call the store holds the ticket the call returned,
\* created at the time of the call, and no ticket created more than one hour before;
\* and whatever the store holds between two such calls, the ticket getPendingReply
\* returns and the tickets getAllPendingReplies lists are never more than one hour old.
C27_StoreSweepsExpiredTickets ==
    [][IsCall =>
         /\ obs'.op = "store"
            => /\ obs'.key \in DOMAIN pendingReplies'
               /\ pendingReplies'[obs'.key].createdAt = now
               /\ pendingReplies'[obs'.key].id = obs'.key
               /\ \A k \in DOMAIN pendingReplies' : ~OlderThanTTL(pendingReplies'[k], now)
         /\ (obs'.op = "get" /\ obs'.found)
            => ~OlderThanTTL(pendingReplies[obs'.key], now)
         /\ obs'.op = "getAll"
            => \A k \in Range(obs'.listed) : ~OlderThanTTL(pendingReplies[k], now)]_vars

\* C27 witness: a storePendingReply call has swept a ticket of two hours before and
\* the store holds the new ticket only.
C27_Witness ==
    /\ obs.op = "store" /\ obs.evicted
    /\ DOMAIN pendingReplies = {obs.key}
    /\ pendingReplies[obs.key].createdAt = now
    /\ Cardinality(obs.issued) = 2

\* C21: a completed API call has yielded a value only if the HTTP status was in
\* 200-299, the envelope's error flag was not set and the timer never fired; a status
\* outside 2xx, an envelope with error set and an abort at the deadline have each ended
\* in a failure; and on every outcome the timer has been cleared.
C21_SuccessOnly2xxWithoutError ==
    fetch.pc = "done"
    => /\ fetch.outcome \in {"success", "failure"}
       /\ fetch.outcome = "success"
          => /\ fetch.status >= 200 /\ fetch.status <= 299
             /\ fetch.envelope \in {"false", "missing"}
             /\ ~fetch.aborted
       /\ (fetch.status # 0 /\ (fetch.status < 200 \/ fetch.status > 299))
          => fetch.outcome = "failure"
       /\ fetch.envelope = "true" => fetch.outcome = "failure"
       /\ fetch.aborted => fetch.outcome = "failure"
       /\ fetch.timer = "cleared"

\* C21 witness: the timer fired while the body of a 200 response was being read, and
\* the call has ended in a failure.
C21_Witness ==
    /\ fetch.pc = "done"
    /\ fetch.status = 200
    /\ fetch.aborted
    /\ fetch.outcome = "failure"

\* The characters Telegram MarkdownV2 treats as special.
MarkdownV2Specials ==
    {"_", "*", "[", "]", "(", ")", "~", "backtick", ">", "#", "+", "-", "=", "|", "{", "}", ".", "!",
     "\\"}

\* out is raw with each special character preceded by exactly one backslash, and
\* every other character as it was, in order.
RECURSIVE IsEscaped(_, _)
IsEscaped(out, raw) ==
    IF raw = <<>> THEN out = <<>>
    ELSE IF Head(raw) \in MarkdownV2Specials
    THEN /\ Len(out) >= 2
         /\ out[1] = "\\" /\ out[2] = Head(raw)
         /\ IsEscaped(SubSeq(out, 3, Len(out)), Tail(raw))
    ELSE /\ Len(out) >= 1
         /\ out[1] = Head(raw)
         /\ IsEscaped(Tail(out), Tail(raw))

\* C22: in the text of a notification the visitor name and the visitor message each
\* appear with every MarkdownV2 special character (_ * [ ] ( ) ~ ` > # + - = | { } . !
\* and backslash) preceded by exactly one backslash and every other character unchanged
\* and in order, which is what escapeMarkdown returns for them.
C22_EscapesEverySpecialCharacter ==
    tg.pc = "built"
    => /\ IsEscaped(tg.text[2], tg.visitorName)
       /\ IsEscaped(tg.text[4], tg.visitorMessage)
       /\ IsEscaped(escapeMarkdown(tg.visitorMessage), tg.visitorMessage)
       /\ Len(tg.text[4]) = Len(tg.visitorMessage)
             + Cardinality({k \in 1..Len(tg.visitorMessage) :
                              tg.visitorMessage[k] \in MarkdownV2Specials})

\* C22 witness: a notification was built for a name ending in a dot and a message
\* made of a backslash and a letter.
C22_Witness ==
    /\ tg.pc = "built"
    /\ tg.visitorName = <<"a", ".">>
    /\ tg.visitorMessage = <<"\\", "a">>
    /\ tg.text[4] = <<"\\", "\\", "a">>

\* Request r is a POST to the account's webhook path that the handler has received.
PostedToWebhook(r) ==
    /\ req[r].pc # "idle"
    /\ req[r].input.method = "POST"
    /\ StartsWith(req[r].input.pathname, resolveWebhookPath(config))

\* A response has been written for request r.
Answered(r) == req[r].pc = "done" /\ req[r].status \in {200, 401, 500}

\* Each external call request r makes eventually returns or fails.
ExternalCallsSettle(r) ==
    /\ WF_vars(HistoryReturns(r))
    /\ WF_vars(TelegramReturns(r))
    /\ WF_vars(SendReturns(r))
    /\ WF_vars(ResolveReturns(r))
    /\ WF_vars(DispatchReturns(r))

\* C30: every POST to the webhook path is eventually answered provided the external
\* calls that request makes return or fail; nothing is assumed of the other request,
\* which may stay suspended on an external call for ever without preventing this one
\* from being handled and answered.
C30_EveryPostIsAnswered ==
    \A r \in Reqs : ExternalCallsSettle(r) => [](PostedToWebhook(r) => <>Answered(r))

\* C30 witness: request r1 has been through the notification call and is answered
\* while request r2 is still suspended on its history fetch.
C30_Witness ==
    /\ req["r2"].pc = "history"
    /\ Answered("r1")
    /\ req["r1"].status = 200
    /\ \E i \in 1..Len(req["r1"].log) : req["r1"].log[i].op = "sendTelegramNotification"

\* The requests whose visitor message of conversation sid has been accepted and tracked.
Accepted(sid) ==
    {r \in Reqs : req[r].isNew # "none" /\ req[r].input.body.data.session_id = sid}

\* C31: when the handlers of n accepted visitor messages of one conversation run
\* interleaved at their awaits, the map holds one session for the conversation, its
\* messageCount is n, and exactly one of the handlers has seen isNew true.
C31_ConcurrentTrackingLosesNothing ==
    \A sid \in SessionIds :
       Accepted(sid) # {}
       => /\ sid \in DOMAIN activeSessions
          /\ activeSessions[sid].sessionId = sid
          /\ activeSessions[sid].messageCount = Cardinality(Accepted(sid))
          /\ Cardinality({r \in Accepted(sid) : req[r].isNew = "true"}) = 1

\* C31 witness: request r2 was tracked while request r1, tracked first, was still
\* suspended on an external call, and both are now suspended.
C31_Witness ==
    /\ Accepted("s1") = {"r1", "r2"}
    /\ req["r1"].isNew = "true"
    /\ req["r2"].isNew = "false"
    /\ req["r1"].pc = "history"
    /\ req["r2"].pc = "dispatch"
    /\ activeSessions["s1"].messageCount = 2

\* C32 (as claimed): once Telegram has delivered the prompt of a ticket as message m,
\* every findPendingReplyByTelegramMessage(m) made while the ticket is stored and no
\* older than the TTL returns that ticket, also when the notifying request has not yet
\* resumed and attached m.
C32_DeliveredPromptIsFound ==
    [][\A r \in Reqs :
          (/\ obs' # obs /\ obs'.op = "find"
           /\ req[r].prompt # UNDEF /\ obs'.m = req[r].prompt
           /\ req[r].ticket \in DOMAIN pendingReplies
           /\ ~OlderThanTTL(pendingReplies[req[r].ticket], now))
          => (obs'.found /\ obs'.key = req[r].ticket)]_vars

\* C33: handleCrispWebhookRequest has returned true exactly when it has written one
\* response, with status 401, 500 or 200; when it returns false (the method is not POST
\* or the path is not the account's webhook path) it has written no response and the
\* call has changed neither the session map nor the pending-reply store.
C33_TrueIffOneResponse ==
    [][\A r \in Reqs :
          /\ req'[r].ret = "true"
                <=> (req'[r].written = 1 /\ req'[r].status \in {401, 500, 200})
          /\ req'[r].written <= 1
          /\ req'[r].ret = "false"
                => /\ req'[r].written = 0 /\ req'[r].status = 0
                   /\ \/ req'[r].input.method # "POST"
                      \/ ~StartsWith(req'[r].input.pathname, resolveWebhookPath(config))
          /\ (req[r].ret = "none" /\ req'[r].ret = "false")
                => /\ req[r].pc = "idle"
                   /\ UNCHANGED <<activeSessions, bgSessions, pendingReplies, pendingOrder>>]_vars

\* C33 witness: a POST for another path has returned false without a response, the
\* stores holding what an earlier message left.
C33_Witness ==
    /\ req["r1"].ret = "false"
    /\ req["r1"].input.method = "POST"
    /\ req["r1"].written = 0
    /\ pendingReplies # EmptyMap
    /\ activeSessions # EmptyMap

\* C34 (as claimed): with several enabled and configured accounts, a request whose
\* path starts with the webhook path of one of them and whose token is that account's
\* secret is not answered 401: it is handled with the configuration of an account it
\* authenticates to, whatever other accounts share the path or have a prefix of it.
C34_AuthenticatedForItsAccount ==
    [][\A r \in Reqs :
          (/\ req[r].pc = "idle" /\ req'[r].pc # "idle"
           /\ req'[r].input.method = "POST"
           /\ \E k \in 1..Len(accounts) :
                 /\ Routable(accounts[k], req'[r].input.pathname)
                 /\ validateWebhookSecret(req'[r].input.secret, accounts[k].config.webhookSecret))
          => /\ req'[r].status # 401
             /\ req'[r].pc = "parsing"
             /\ StartsWith(req'[r].input.pathname, resolveWebhookPath(config'))
             /\ validateWebhookSecret(req'[r].input.secret, config'.webhookSecret)]_vars

\* C35: a trackSession call for a conversation that has a session sets that session's
\* lastMessageAt to the time of the call, adds one to its messageCount and clears its
\* isNew; its visitorEmail, visitorName, websiteId, accountId, startedAt and sessionId
\* are unchanged, and no other session is added, modified or removed.
C35_TrackingTouchesThreeFields ==
    [][(IsTrack /\ trk'.sid \in DOMAIN activeSessions)
         => LET sid == trk'.sid
                before == activeSessions[sid]
            IN  /\ DOMAIN activeSessions' = DOMAIN activeSessions
                /\ bgSessions' = bgSessions
                /\ \A s \in DOMAIN activeSessions \ {sid} : activeSessions'[s] = activeSessions[s]
                /\ activeSessions'[sid] =
                      [before EXCEPT !.lastMessageAt = now,
                                     !.messageCount = before.messageCount + 1,
                                     !.isNew = FALSE]
                /\ activeSessions'[sid].visitorEmail = before.visitorEmail
                /\ activeSessions'[sid].visitorName = before.visitorName
                /\ activeSessions'[sid].startedAt = before.startedAt]_vars

\* C35 witness: a later message of a conversation, sent under another nickname an hour
\* after the first, was tracked after a session:set_email event had set the email; the
\* session keeps the email, the first name and its start, and the other conversation
\* has a session too.
C35_Witness ==
    /\ trk.called /\ trk.sid = "s1" /\ trk.k = 2
    /\ "s1" \in DOMAIN activeSessions /\ "s2" \in DOMAIN activeSessions
    /\ activeSessions["s1"].visitorEmail = "e1"
    /\ activeSessions["s1"].visitorName = "Visitor"
    /\ activeSessions["s1"].messageCount = 2
    /\ activeSessions["s1"].startedAt = 0
    /\ activeSessions["s1"].lastMessageAt = 1
    /\ now = 1
    /\ obs.op = "none"

====
